---- MODULE Spec2Model ----
(***************************************************************************)
(* Early-warning risk service (Swarada12/HACKOHIRE, backend/).             *)
(* The intervention engine (intervention_engine.py): offer catalog,        *)
(* governance check, selection cascade, fairness check, audit trail.       *)
(* Scores are integers; ratios are carried in thousandths (0.03 -> 30);    *)
(* impact coefficients in hundredths (0.15 -> 15).                         *)
(***************************************************************************)
EXTENDS Integers, Sequences, FiniteSets, TLC

\* ------------------------------------------------------------------------
\*  Bounds of the model and constants of the program
\* ------------------------------------------------------------------------
MaxCalls == 2
MaxScore == 100
ExposureThreshold == 65
MaxBounce == 6
GamblingCut == 30

Scores == 0..MaxScore

None == [id |-> "None"]

\* dict.get(key, default)
Get(d, key, default) == IF key \in DOMAIN d THEN d[key] ELSE default

\* ------------------------------------------------------------------------
\*  Case types (strings the context resolver and the record store produce)
\* ------------------------------------------------------------------------
CT_Normal == "Normal"
CT_Strategic == "Strategic Defaulter (High Ability, Low Intent)"
CT_Victim == "Victim of Circumstance (Low Ability, High Intent)"
CT_Insolvency == "High Risk Insolvency"
CT_Prime == "Prime Customer"
CT_DbStrategic == "Strategic Defaulter"
CT_DbVictim == "Victim of Circumstance"

CaseTypes == {CT_Normal, CT_Strategic, CT_Victim, CT_Insolvency, CT_Prime}

\* the test as an equality with the stored label instead of a substring test
HasStrategic_exact(case_type) == case_type = CT_DbStrategic

\* "Strategic Defaulter" in case_type, "Strategic" in case_type
HasStrategic(case_type) == case_type \in {CT_Strategic, CT_DbStrategic}
\* the test as an equality with the stored label instead of a substring test
HasVictim_exact(case_type) == case_type = CT_DbVictim

\* "Victim of Circumstance" in case_type, "Victim" in case_type
HasVictim(case_type) == case_type \in {CT_Victim, CT_DbVictim}

\* ------------------------------------------------------------------------
\*  OFFER_CATALOG
\* ------------------------------------------------------------------------
Offer(i, n, imp, mr, ie) ==
    [id |-> i, name |-> n, impact |-> imp, max_risk |-> mr, increases_exposure |-> ie]

OFFER_CATALOG ==
    [liquidity_relief |->
        [label |-> "Liquidity Relief",
         offers |-> <<
            Offer("OFF-EMI-DATESHIFT", "EMI Due Date Shift (7-15 days)", 15, 75, FALSE),
            Offer("OFF-PARTIAL-EMI", "Partial EMI Payment Option", 20, 80, FALSE),
            Offer("OFF-GRACE", "Grace Period (No penalty for 5-7 days)", 10, 70, FALSE),
            Offer("OFF-MORATORIUM-30", "30-Day EMI Moratorium", 40, 80, FALSE),
            Offer("OFF-SPLIT-EMI", "Split EMI Across 2 Months", 35, 85, FALSE),
            Offer("OFF-SALARY-ADV", "Salary Advance Micro-Credit", 30, 65, TRUE),
            Offer("OFF-INTEREST-FREEZE", "Temporary Interest Freeze", 38, 85, FALSE) >>],
     restructuring |->
        [label |-> "Restructuring",
         offers |-> <<
            Offer("OFF-TENURE-EXT", "Loan Tenure Extension", 25, 90, FALSE),
            Offer("OFF-EMI-REDUCE", "EMI Reduction via Restructuring", 30, 90, FALSE),
            Offer("OFF-CONSOLIDATION", "Consolidation of Multiple Loans", 35, 85, FALSE),
            Offer("OFF-CC-TO-EMI", "Convert Credit Card Outstanding to EMI", 25, 80, FALSE),
            Offer("OFF-RATE-RENEGOTIATE", "Interest Rate Renegotiation", 20, 90, FALSE),
            Offer("OFF-STEPUP-EMI", "Step-Up / Step-Down EMI Plan", 25, 85, FALSE) >>],
     behavioral_correction |->
        [label |-> "Behavioral Correction",
         offers |-> <<
            Offer("OFF-SPEND-LIMIT", "Spending Limit Advisory", 15, 99, FALSE),
            Offer("OFF-MERCHANT-BLOCK", "Merchant Category Block (High-risk categories)", 30, 99, FALSE),
            Offer("OFF-CREDIT-REDUCE", "Credit Limit Reduction", 20, 99, FALSE),
            Offer("OFF-FIN-COUNSEL", "Financial Counseling Session", 25, 99, FALSE),
            Offer("OFF-BUDGET-TOOLKIT", "Budget Planning Toolkit Access", 10, 99, FALSE),
            Offer("OFF-AI-INSIGHTS", "Spending Insights Dashboard", 15, 99, FALSE) >>],
     governance |->
        [label |-> "Governance / Control",
         offers |-> <<
            Offer("OFF-PRE-EMI-ESC", "Pre-EMI Reminder Escalation", 15, 99, FALSE),
            Offer("OFF-SOFT-FREEZE", "Soft Account Freeze Warning", 25, 99, FALSE),
            Offer("OFF-HARD-FREEZE", "Hard Freeze (if delinquent)", 50, 99, FALSE),
            Offer("OFF-CREDIT-EXPOSURE", "Reduced Credit Exposure", 30, 99, FALSE),
            Offer("OFF-LEGAL-FLAG", "Legal Risk Flagging", 40, 99, FALSE),
            Offer("OFF-RM-REVIEW", "Manual Review by Risk Officer", 45, 99, FALSE) >>],
     proactive_positive |->
        [label |-> "Proactive Positive",
         offers |-> <<
            Offer("OFF-LOYALTY-GRACE", "Loyalty-Based Grace Protection", 20, 60, FALSE),
            Offer("OFF-CASHBACK", "Cashback Protection Month", 15, 50, FALSE),
            Offer("OFF-SCORE-SHIELD", "Credit Score Shield Assurance", 10, 55, FALSE),
            Offer("OFF-RM-PRIORITY", "Relationship Manager Priority Support", 35, 70, FALSE) >>]]

Categories == DOMAIN OFFER_CATALOG

CategoryOffers(category) == OFFER_CATALOG[category].offers

\* "Moratorium" in offer["name"]
NameHasMoratorium(name) == name = "30-Day EMI Moratorium"

\* ------------------------------------------------------------------------
\*  _governance_check
\* ------------------------------------------------------------------------
Verdict(a, r) == [approved |-> a, reason |-> r]

_governance_check_inverted(offer, score, features) ==
    IF offer.increases_exposure /\ score > ExposureThreshold
      THEN Verdict(TRUE, "Approved: Eligibility and compliance checks passed")
    ELSE IF score > offer.max_risk
      THEN Verdict(TRUE, "Approved: Eligibility and compliance checks passed")
    ELSE IF NameHasMoratorium(offer.name)
            /\ Get(features, "t_auto_debit_fail_count", 0) > MaxBounce
      THEN Verdict(TRUE, "Approved: Eligibility and compliance checks passed")
    ELSE Verdict(FALSE, "Blocked")

_governance_check(offer, score, features) ==
    IF offer.increases_exposure /\ score > ExposureThreshold
      THEN Verdict(FALSE, "Blocked: Exposure increase not permitted above risk threshold 65")
    ELSE IF score > offer.max_risk
      THEN Verdict(FALSE, "Blocked: Offer not eligible above risk score")
    ELSE IF NameHasMoratorium(offer.name)
            /\ Get(features, "t_auto_debit_fail_count", 0) > MaxBounce
      THEN Verdict(FALSE, "Blocked: Excessive bounce history, moratorium not eligible")
    ELSE Verdict(TRUE, "Approved: Eligibility and compliance checks passed")

\* ------------------------------------------------------------------------
\*  _pick_with_governance
\* ------------------------------------------------------------------------
WithStatus(offer, reason) ==
    [id |-> offer.id, name |-> offer.name, impact |-> offer.impact,
     max_risk |-> offer.max_risk, increases_exposure |-> offer.increases_exposure,
     governance_status |-> reason]

Picked(p, f, c) == [primary |-> p, fallback |-> f, category |-> c]

\* the loop over the priority list: indices are 0-based positions in the category
RECURSIVE PickLoop(_, _, _, _, _, _)
PickLoop(offers, indices, score, features, primary, fallback) ==
    IF indices = << >> THEN [primary |-> primary, fallback |-> fallback]
    ELSE LET idx == Head(indices)
             rest == Tail(indices)
         IN  IF idx >= Len(offers)
               THEN PickLoop(offers, rest, score, features, primary, fallback)
             ELSE LET offer == offers[idx + 1]
                      v == _governance_check(offer, score, features)
                  IN  IF v.approved
                        THEN IF primary = None
                               THEN PickLoop(offers, rest, score, features,
                                             WithStatus(offer, v.reason), fallback)
                             ELSE [primary |-> primary,
                                   fallback |-> WithStatus(offer, v.reason)]
                      ELSE PickLoop(offers, rest, score, features, primary, fallback)

\* first offer of the category, in catalog order, that passes
RECURSIVE FirstPassing(_, _, _)
FirstPassing(offers, score, features) ==
    IF offers = << >> THEN None
    ELSE LET v == _governance_check(Head(offers), score, features)
         IN  IF v.approved THEN WithStatus(Head(offers), v.reason)
             ELSE FirstPassing(Tail(offers), score, features)

RmReview == OFFER_CATALOG["governance"].offers[6]

\* the second branch of the loop taken without the elif: the approved offer is
\* stored as primary and as fallback
_pick_with_governance_twice(category, indices, score, features) ==
    LET offers == CategoryOffers(category)
        listed == PickLoop(offers, indices, score, features, None, None)
    IN  IF listed.primary = None
          THEN Picked(WithStatus(RmReview,
                          "Fallback: All category offers blocked by governance"),
                      None, "governance")
        ELSE Picked(listed.primary, listed.primary, category)

\* without the last resort: primary stays None when the whole category is blocked
_pick_with_governance_noreview(category, indices, score, features) ==
    LET offers == CategoryOffers(category)
        listed == PickLoop(offers, indices, score, features, None, None)
        p2 == IF listed.primary = None
                THEN FirstPassing(offers, score, features)
              ELSE listed.primary
    IN  Picked(p2, listed.fallback, category)

\* the priority list ignored: the first offer of the category that passes, no
\* fallback
_pick_with_governance_catalogfirst(category, indices, score, features) ==
    LET offers == CategoryOffers(category)
        p2 == FirstPassing(offers, score, features)
    IN  IF p2 = None
          THEN Picked(WithStatus(RmReview,
                          "Fallback: All category offers blocked by governance"),
                      None, "governance")
        ELSE Picked(p2, None, category)

_pick_with_governance(category, indices, score, features) ==
    LET offers == CategoryOffers(category)
        listed == PickLoop(offers, indices, score, features, None, None)
        p2 == IF listed.primary = None
                THEN FirstPassing(offers, score, features)
              ELSE listed.primary
    IN  IF p2 = None
          THEN Picked(WithStatus(RmReview,
                          "Fallback: All category offers blocked by governance"),
                      listed.fallback, "governance")
        ELSE Picked(p2, listed.fallback, category)

\* ------------------------------------------------------------------------
\*  _select_offers: the priority cascade (first matching rule wins)
\* ------------------------------------------------------------------------
\* the positions taken as 1-based: every listed index one too far
Choice_onebased(c, ix) == [category |-> c, indices |-> [i \in DOMAIN ix |-> ix[i] + 1]]

Choice(c, ix) == [category |-> c, indices |-> ix]

\* the comparison with the cut-off included
ElevatedGambling_inclusive(gambling_ratio) == gambling_ratio >= GamblingCut

\* gambling_ratio > 0.03
ElevatedGambling(gambling_ratio) == gambling_ratio > GamblingCut

CascadeChoice(score, ability, willingness, case_type, lead_agent, features) ==
    LET is_strategic == HasStrategic(case_type)
        is_victim == HasVictim(case_type)
        gambling_ratio == Get(features, "f_gambling_to_income", 0)
    IN  IF score >= 90
          THEN IF is_strategic THEN Choice("governance", <<5, 4, 3>>)
               ELSE IF is_victim THEN Choice("restructuring", <<0, 1, 4>>)
               ELSE Choice("governance", <<5, 3, 1>>)
        ELSE IF is_strategic
          THEN IF score >= 70 THEN Choice("governance", <<1, 3, 5>>)
               ELSE Choice("governance", <<0, 1>>)
        ELSE IF is_victim
          THEN IF score >= 70 THEN Choice("liquidity_relief", <<3, 4, 6>>)
               ELSE IF score >= 50 THEN Choice("liquidity_relief", <<0, 1, 2>>)
               ELSE Choice("liquidity_relief", <<2, 0>>)
        ELSE IF ability > 60 /\ willingness < 40
          THEN IF ElevatedGambling(gambling_ratio)
                 THEN Choice("behavioral_correction", <<1, 2, 3>>)
               ELSE Choice("behavioral_correction", <<0, 4, 5>>)
        ELSE IF ability < 40 /\ willingness > 60
          THEN IF score >= 65 THEN Choice("restructuring", <<2, 0, 1>>)
               ELSE Choice("restructuring", <<4, 5, 0>>)
        ELSE IF score < 50 /\ ability > 50
          THEN Choice("proactive_positive", <<0, 2, 3>>)
        ELSE IF lead_agent = "velocity"
          THEN Choice("liquidity_relief", <<3, 4, 0>>)
        ELSE IF lead_agent = "financial"
          THEN Choice("restructuring", <<2, 0, 4>>)
        ELSE IF lead_agent = "behavioral"
          THEN Choice("behavioral_correction", <<5, 0, 4>>)
        ELSE IF score >= 70 THEN Choice("restructuring", <<0, 4>>)
        ELSE Choice("proactive_positive", <<2, 0>>)

_select_offers(score, ability, willingness, case_type, lead_agent, features) ==
    LET c == CascadeChoice(score, ability, willingness, case_type, lead_agent, features)
    IN  _pick_with_governance(c.category, c.indices, score, features)

\* ------------------------------------------------------------------------
\*  _fairness_check
\* ------------------------------------------------------------------------
\* the first flag without the exclusion of strategic defaulters
_fairness_check_anycase(category, case_type, score, features) ==
    LET f1 == IF category = "governance" /\ score < 75
                THEN [flag |-> "REVIEW",
                      reason |-> "Punitive action assigned to non-strategic customer below score 75"]
              ELSE [flag |-> "CLEAR", reason |-> "No bias indicators detected"]
    IN  IF category = "governance" /\ score < 85 /\ case_type = CT_Normal
          THEN [flag |-> "REVIEW",
                reason |-> "Governance escalation for normal-case customer - verify proportionality"]
        ELSE f1

\* the first flag with the cut-off at 90 instead of 75
_fairness_check_below90(category, case_type, score, features) ==
    LET f1 == IF category = "governance" /\ ~HasStrategic(case_type) /\ score < 90
                THEN [flag |-> "REVIEW",
                      reason |-> "Punitive action assigned to non-strategic customer below score 75"]
              ELSE [flag |-> "CLEAR", reason |-> "No bias indicators detected"]
    IN  IF category = "governance" /\ score < 85 /\ case_type = CT_Normal
          THEN [flag |-> "REVIEW",
                reason |-> "Governance escalation for normal-case customer - verify proportionality"]
        ELSE f1

_fairness_check(category, case_type, score, features) ==
    LET f1 == IF category = "governance" /\ ~HasStrategic(case_type) /\ score < 75
                THEN [flag |-> "REVIEW",
                      reason |-> "Punitive action assigned to non-strategic customer below score 75"]
              ELSE [flag |-> "CLEAR", reason |-> "No bias indicators detected"]
    IN  IF category = "governance" /\ score < 85 /\ case_type = CT_Normal
          THEN [flag |-> "REVIEW",
                reason |-> "Governance escalation for normal-case customer - verify proportionality"]
        ELSE f1

\* ------------------------------------------------------------------------
\*  generate_intervention: lead stressor, channel and timing, result
\* ------------------------------------------------------------------------
\* domain_map.get(top_factor, 'financial')
DomainOf(top_factor) ==
    IF top_factor \in {"salary_delay_days", "failed_debits"} THEN "velocity"
    ELSE IF top_factor \in {"lending_app_txns", "gambling_amt"} THEN "behavioral"
    ELSE "financial"

\* max(('xgboost_risk','lightgbm_risk','lstm_pattern'), key=...): the first maximum
TopAgent(raw_scores) ==
    IF raw_scores.xgboost_risk >= raw_scores.lightgbm_risk
       /\ raw_scores.xgboost_risk >= raw_scores.lstm_pattern THEN "financial"
    ELSE IF raw_scores.lightgbm_risk >= raw_scores.lstm_pattern THEN "behavioral"
    ELSE "velocity"

LeadAgent(ml_result) ==
    IF Get(ml_result, "shap_explanation", << >>) # << >>
      THEN DomainOf(ml_result.shap_explanation[1].feature)
    ELSE TopAgent(ml_result.agent_scores)

StressorLabel(lead_agent) ==
    CASE lead_agent = "financial" -> "Financial Stress"
      [] lead_agent = "behavioral" -> "Spending Pattern Shift"
      [] lead_agent = "velocity" -> "Cash Flow Disruption"
      [] OTHER -> "Risk Signal"

Tier(score, case_type) ==
    IF HasStrategic(case_type) THEN "high"
    ELSE IF score >= 80 THEN "high"
    ELSE IF score >= 50 THEN "mid"
    ELSE "low"

ChannelMap ==
    [liquidity_relief |->
        [high |-> <<"Relationship Manager Call", "Within 4 Hours">>,
         mid |-> <<"WhatsApp Business API", "Same Business Day">>,
         low |-> <<"In-App Notification", "Next 24 Hours">>],
     restructuring |->
        [high |-> <<"Dedicated RM Call", "Within 4 Hours">>,
         mid |-> <<"WhatsApp + Branch Invite", "Next Business Day">>,
         low |-> <<"Email + In-App Nudge", "Within 48 Hours">>],
     behavioral_correction |->
        [high |-> <<"RM Advisory Call + In-App Alert", "Within 24 Hours">>,
         mid |-> <<"In-App Smart Notification", "Same Day">>,
         low |-> <<"In-App Wellness Dashboard", "Next Login">>],
     governance |->
        [high |-> <<"Senior RM + Risk Officer Review", "Immediate Escalation">>,
         mid |-> <<"Relationship Manager Call", "Within 4 Hours">>,
         low |-> <<"Automated Pre-EMI Reminder", "3 Days Before Due Date">>],
     proactive_positive |->
        [high |-> <<"RM Outreach Call", "Next Business Day">>,
         mid |-> <<"WhatsApp Personalized Message", "Within 24 Hours">>,
         low |-> <<"In-App Wellness Nudge", "Next Login Session">>]]

Raise(e) == [kind |-> "raise", error |-> e]
Return(v) == [kind |-> "return", value |-> v]

\* the selection score: unified_score when given (<<n>>), else (<< >>, Python's
\* None) ml_result['fusion_score']
SelectionScore(ml_result, unified_score) ==
    IF unified_score # << >> THEN unified_score[1] ELSE ml_result.fusion_score

generate_intervention(customer_id, features, ml_result, context, unified_score) ==
    LET score == SelectionScore(ml_result, unified_score)
        lead_agent == LeadAgent(ml_result)
        case_type == context.case_type
        ability == context.ability_score
        willingness == context.willingness_score
        sel == _select_offers(score, ability, willingness, case_type, lead_agent, features)
        primary == sel.primary
        fallback == sel.fallback
        category == sel.category
        ch == ChannelMap[category][Tier(score, case_type)]
    IN  IF primary = None
          THEN Raise("TypeError")   \* primary['name'] on None
        ELSE Return(
          [intervention_score |-> score,
           recommended_offer |-> primary.name,
           offer_id |-> primary.id,
           offer_category |-> OFFER_CATALOG[category].label,
           governance_status |-> primary.governance_status,
           channel |-> ch[1],
           timing_optimizer |-> ch[2],
           lead_stressor |-> StressorLabel(lead_agent),
           model_rationale |-> [primary |-> StressorLabel(lead_agent)],
           status |-> "Recommendation Sent",
           fairness_check |-> _fairness_check(category, case_type, score, features),
           meta |-> [case_context |-> case_type,
                     ability_score |-> ability,
                     willingness_score |-> willingness,
                     agent_scores |-> ml_result.agent_scores],
           fallback_offer |->
               IF fallback # None
                 THEN [id |-> fallback.id, name |-> fallback.name,
                       governance_status |-> fallback.governance_status]
               ELSE None])

\* ------------------------------------------------------------------------
\*  _log_audit_trail: one append to the audit file inside try/except
\* ------------------------------------------------------------------------
AuditEntry(timestamp, customer_id, result) ==
    [timestamp |-> timestamp,
     customer_id |-> customer_id,
     risk_score |-> result.intervention_score,
     offer_id |-> result.offer_id,
     offer_name |-> result.recommended_offer,
     offer_category |-> result.offer_category,
     governance_status |-> result.governance_status,
     channel |-> result.channel,
     timing |-> result.timing_optimizer,
     case_context |-> result.meta.case_context,
     fallback_offer |-> IF result.fallback_offer # None
                          THEN result.fallback_offer.id ELSE "null",
     fairness_flag |-> result.fairness_check.flag]

\* log: the file's lines; write_ok: whether open/write succeeds this time.
\* Returns the file, the number of write attempts and whether an exception
\* leaves the method.
\* the file opened with "w": the entry replaces the file's content
_log_audit_trail_truncating(log, timestamp, customer_id, result, write_ok) ==
    [log |-> IF write_ok THEN <<AuditEntry(timestamp, customer_id, result)>>
             ELSE log,
     attempts |-> 1,
     raised |-> FALSE]

\* without the try/except: the I/O error leaves the method
_log_audit_trail_unguarded(log, timestamp, customer_id, result, write_ok) ==
    [log |-> IF write_ok THEN Append(log, AuditEntry(timestamp, customer_id, result))
             ELSE log,
     attempts |-> 1,
     raised |-> ~write_ok]

_log_audit_trail(log, timestamp, customer_id, result, write_ok) ==
    [log |-> IF write_ok THEN Append(log, AuditEntry(timestamp, customer_id, result))
             ELSE log,
     attempts |-> 1,
     raised |-> FALSE]

\* ------------------------------------------------------------------------
\*  State
\* ------------------------------------------------------------------------
VARIABLES
    store,      \* the customers table with the per-customer aggregates of the other tables
    engine,     \* MLRiskEngine: whether the models loaded, and what they compute
    req,        \* the last request, with the arguments the intervention engine got
    response,   \* what the last call returned or raised
    auditLog,   \* lines of intervention_audit.log
    now,        \* the clock behind datetime.now()
    calls,      \* calls made so far
    lastWrite   \* audit-file write attempts of the last call

vars == <<store, engine, req, response, auditLog, now, calls, lastWrite>>

NoResponse == [kind |-> "none"]
NoWrite == [attempts |-> 0, failed |-> FALSE]

\* ------------------------------------------------------------------------
\*  Engine requests
\* ------------------------------------------------------------------------
Abilities == {35, 55, 75}
Willingnesses == {30, 75}
GamblingRatios == {GamblingCut, GamblingCut + 1}
BounceCounts == {0, MaxBounce + 1}
CustomerIds == {"CUSR-100000", "CUSR-100010"}

EmptyDict == [k \in {} |-> 0]
NoEngine == [initialized |-> FALSE]

Agents(x, l, s) == [xgboost_risk |-> x, lightgbm_risk |-> l, lstm_pattern |-> s]

MlResult(fusion, agents, shap) ==
    [fusion_score |-> fusion, agent_scores |-> agents, shap_explanation |-> shap]

AgentTriples == {Agents(60, 60, 60), Agents(40, 70, 70), Agents(20, 30, 80)}

\* SHAP is disabled in predict_ensemble (an empty list); a direct caller may
\* pass attributions, whose first entry then names the lead domain
ShapLists == {<< >>, <<[feature |-> "failed_debits"]>>}

MlVariants ==
    {<<a, << >>>> : a \in AgentTriples} \cup {<<Agents(60, 60, 60), sh>> : sh \in ShapLists}

Contexts ==
    [case_type : CaseTypes, ability_score : Abilities, willingness_score : Willingnesses]

Features ==
    [name : {"Customer"},
     f_gambling_to_income : GamblingRatios,
     t_auto_debit_fail_count : BounceCounts]

\* a request passes the score as unified_score (beside a fusion score of 50) or
\* leaves unified_score out and passes it as the fusion score
Requests ==
    { [customer_id |-> "CUSR-100000", features |-> f,
       ml_result |-> MlResult(IF u THEN 50 ELSE s, m[1], m[2]),
       context |-> c,
       unified_score |-> IF u THEN <<s>> ELSE << >>] :
        f \in Features, s \in Scores, m \in MlVariants, c \in Contexts,
        u \in BOOLEAN }

Init ==
    /\ store = EmptyDict
    /\ engine = NoEngine
    /\ req \in Requests
    /\ response = NoResponse
    /\ auditLog = << >>
    /\ now = 0
    /\ calls = 0
    /\ lastWrite = NoWrite

\* ------------------------------------------------------------------------
\*  InterventionEngine.generate_intervention, with its audit-trail write
\* ------------------------------------------------------------------------
GenerateIntervention(write_ok) ==
    /\ calls < MaxCalls
    /\ LET r == generate_intervention(req.customer_id, req.features, req.ml_result,
                                      req.context, req.unified_score)
       IN  IF r.kind = "raise"
             THEN /\ response' = r
                  /\ UNCHANGED auditLog
                  /\ lastWrite' = NoWrite
           ELSE LET w == _log_audit_trail(auditLog, now, req.customer_id, r.value, write_ok)
                IN  /\ auditLog' = w.log
                    /\ lastWrite' = [attempts |-> w.attempts, failed |-> ~write_ok]
                    /\ response' = IF w.raised THEN Raise("IOError") ELSE r
    /\ now' = now + 1
    /\ calls' = calls + 1
    /\ UNCHANGED <<store, engine, req>>

Next ==
    \/ GenerateIntervention(TRUE)
    \/ GenerateIntervention(FALSE)

Spec == Init /\ [][Next]_vars

\* ------------------------------------------------------------------------
\*  Properties of the engine
\* ------------------------------------------------------------------------
AllOffers == UNION {{CategoryOffers(c)[i] : i \in 1..Len(CategoryOffers(c))} : c \in Categories}

OfferById(id) == CHOOSE o \in AllOffers : o.id = id

CategoryOfOffer(id) ==
    CHOOSE c \in Categories : \E i \in 1..Len(CategoryOffers(c)) : CategoryOffers(c)[i].id = id

Returned == response.kind = "return"
Result == response.value
ReqScore == SelectionScore(req.ml_result, req.unified_score)
ReqChoice ==
    CascadeChoice(ReqScore, req.context.ability_score, req.context.willingness_score,
                  req.context.case_type, LeadAgent(req.ml_result), req.features)

\* C1: neither the primary nor the fallback offer of a returned intervention
\* increases exposure when the score used for the selection is above 65.
C1_NoExposureAbove65 ==
    (Returned /\ ReqScore > 65) =>
        /\ ~OfferById(Result.offer_id).increases_exposure
        /\ Result.fallback_offer # None =>
               ~OfferById(Result.fallback_offer.id).increases_exposure

\* C1 witness: a selection at score 70 in Liquidity Relief, the category that
\* holds the exposure-increasing offer, after the whole category was searched
\* (the listed moratorium is blocked by the bounce history).
C1_Witness ==
    /\ Returned /\ ReqScore = 70
    /\ ReqChoice.category = "liquidity_relief"
    /\ req.features.t_auto_debit_fail_count > 6
    /\ Result.offer_category = "Liquidity Relief"

\* C3: a call returns exactly one primary offer (offer_id and recommended_offer
\* name a catalog offer) and at most one fallback; a fallback differs from the
\* primary and is of the primary's category.
C3_OnePrimaryDistinctFallback ==
    calls > 0 =>
        /\ Returned
        /\ \E o \in AllOffers : o.id = Result.offer_id /\ o.name = Result.recommended_offer
        /\ Result.fallback_offer # None =>
              /\ \E o \in AllOffers : o.id = Result.fallback_offer.id
              /\ Result.fallback_offer.id # Result.offer_id
              /\ CategoryOfOffer(Result.fallback_offer.id) = CategoryOfOffer(Result.offer_id)

\* C3 witness: an intervention returned with a fallback offer.
C3_Witness == Returned /\ Result.fallback_offer # None

\* every offer of the category the cascade chose is blocked for the request
CategoryBlocked ==
    \A i \in 1..Len(CategoryOffers(ReqChoice.category)) :
        ~_governance_check(CategoryOffers(ReqChoice.category)[i], ReqScore, req.features).approved

\* C4: when no offer of the category chosen by the cascade passes governance,
\* the call returns (no error) the manual-review offer OFF-RM-REVIEW, with the
\* category Governance and no fallback.
C4_ExhaustedGivesManualReview ==
    (calls > 0 /\ CategoryBlocked) =>
        /\ Returned
        /\ Result.offer_id = "OFF-RM-REVIEW"
        /\ Result.offer_category = OFFER_CATALOG["governance"].label
        /\ Result.fallback_offer = None

\* C4 witness: a Liquidity Relief selection in which every offer is blocked.
C4_Witness ==
    /\ Returned /\ CategoryBlocked
    /\ ReqChoice.category = "liquidity_relief"
    /\ Result.offer_id = "OFF-RM-REVIEW"

\* C5 (as claimed): at a score of 90 or more the returned category is
\* Governance, whatever the case type.
C5_GovernanceFrom90 ==
    (Returned /\ ReqScore >= 90) =>
        Result.offer_category = OFFER_CATALOG["governance"].label

\* C6 (as claimed): a Victim of Circumstance below 90 always gets Liquidity Relief.
C6_VictimLiquidityBelow90 ==
    (Returned /\ HasVictim(req.context.case_type) /\ ReqScore < 90) =>
        Result.offer_category = OFFER_CATALOG["liquidity_relief"].label

\* C6 (amended): a Victim of Circumstance with a score of at most 85 gets
\* Liquidity Relief, for every auto-debit-failure count; from 86 to 89 every
\* Liquidity Relief offer is above its cap and the manual-review Governance
\* offer is returned.
C6_VictimLiquidityUpTo85 ==
    (Returned /\ req.context.case_type = CT_Victim) =>
        /\ ReqScore <= 85 =>
              /\ Result.offer_category = OFFER_CATALOG["liquidity_relief"].label
              /\ CategoryOfOffer(Result.offer_id) = "liquidity_relief"
        /\ (ReqScore >= 86 /\ ReqScore < 90) =>
              /\ Result.offer_category = OFFER_CATALOG["governance"].label
              /\ Result.offer_id = "OFF-RM-REVIEW"

\* C6 witness: a victim at score 85 with more than six failed auto-debits.
C6_Witness ==
    /\ Returned /\ req.context.case_type = CT_Victim /\ ReqScore = 85
    /\ req.features.t_auto_debit_fail_count > 6
    /\ Result.offer_category = OFFER_CATALOG["liquidity_relief"].label

\* C7: below 90, with ability > 60 and willingness < 40 and a case type that is
\* neither Strategic Defaulter nor Victim, the category is Behavioral Correction
\* and the primary is OFF-MERCHANT-BLOCK when the gambling ratio is above 0.03,
\* OFF-SPEND-LIMIT otherwise.
C7_BehavioralCorrection ==
    (/\ Returned /\ ReqScore < 90
     /\ req.context.ability_score > 60 /\ req.context.willingness_score < 40
     /\ ~HasStrategic(req.context.case_type) /\ ~HasVictim(req.context.case_type)) =>
        /\ Result.offer_category = OFFER_CATALOG["behavioral_correction"].label
        /\ Result.offer_id = IF req.features.f_gambling_to_income > 30
                               THEN "OFF-MERCHANT-BLOCK" ELSE "OFF-SPEND-LIMIT"

\* C7 witness: such a selection at the cut-off ratio 0.03 exactly.
C7_Witness ==
    /\ Returned /\ ReqScore < 90
    /\ req.context.ability_score > 60 /\ req.context.willingness_score < 40
    /\ req.context.case_type = CT_Normal
    /\ req.features.f_gambling_to_income = 30
    /\ Result.offer_id = "OFF-SPEND-LIMIT"

EntryMatches(e, cid, r) ==
    /\ e.customer_id = cid
    /\ e.risk_score = r.intervention_score
    /\ e.offer_id = r.offer_id
    /\ e.offer_category = r.offer_category
    /\ e.governance_status = r.governance_status
    /\ e.fallback_offer = (IF r.fallback_offer = None THEN "null" ELSE r.fallback_offer.id)
    /\ e.fairness_flag = r.fairness_check.flag

CallReturns == calls' = calls + 1 /\ response'.kind = "return"

PrefixKept == \A i \in 1..Len(auditLog) : i <= Len(auditLog') /\ auditLog'[i] = auditLog[i]

\* C8 (as claimed): each call that returns appends exactly one entry, which
\* agrees with the returned result; earlier entries stay as they were.
C8_EveryReturnAppends ==
    [][CallReturns =>
          /\ Len(auditLog') = Len(auditLog) + 1
          /\ EntryMatches(auditLog'[Len(auditLog')], req.customer_id, response'.value)
          /\ PrefixKept]_vars

\* C8 (amended): each call that returns and whose audit write succeeds appends
\* exactly one entry, which agrees with the returned result; a call whose write
\* fails appends nothing; earlier entries are never modified or removed.
C8_ReturnAppendsUnlessWriteFails ==
    [][CallReturns =>
          /\ PrefixKept
          /\ IF lastWrite'.failed
               THEN auditLog' = auditLog
             ELSE /\ Len(auditLog') = Len(auditLog) + 1
                  /\ EntryMatches(auditLog'[Len(auditLog')], req.customer_id,
                                  response'.value)]_vars

\* C8 witness: a second entry appended behind a first one.
C8_Witness == Returned /\ Len(auditLog) = 2 /\ ~lastWrite.failed

\* C9: when the audit write fails the call still returns, with the result it
\* returns when the write succeeds; the write is attempted once and the failure
\* is not visible to the caller.
C9_WriteFailureSwallowed ==
    /\ lastWrite.attempts <= 1
    /\ lastWrite.failed =>
          /\ Returned
          /\ lastWrite.attempts = 1
          /\ response = generate_intervention(req.customer_id, req.features,
                             req.ml_result, req.context, req.unified_score)
          /\ Result.status = "Recommendation Sent"

\* C9 witness: a call returned although its audit write failed.
C9_Witness == Returned /\ lastWrite.failed /\ lastWrite.attempts = 1

\* ------------------------------------------------------------------------
\*  The record store (FeatureStore over the customers table)
\* ------------------------------------------------------------------------
Max(a, b) == IF b > a THEN b ELSE a
Min(a, b) == IF b < a THEN b ELSE a
Clamp_lower_only(lo, hi, x) == Max(lo, x)

Clamp(lo, hi, x) == Max(lo, Min(hi, x))

\* round() of the non-negative fraction num/den: to nearest, ties to even
RoundHalfEven(num, den) ==
    LET q == num \div den
        r == num % den
    IN  IF 2 * r < den THEN q
        ELSE IF 2 * r > den THEN q + 1
        ELSE IF q % 2 = 0 THEN q ELSE q + 1

\* A nullable column holds << >> (NULL) or <<v>>; a nullable text column holds
\* NullText or the text.
NullText == "<NULL>"
IsNull(x) == x = << >>

\* the one partition of service.py:272 (also feature_store.py:57-61, setup_db.py)
RiskLevel(display_score) ==
    IF display_score >= 85 THEN "Critical"
    ELSE IF display_score >= 45 THEN "High"
    ELSE IF display_score >= 30 THEN "Medium"
    ELSE "Low"

Row(rs, rct, ab, wi, util, bounces) ==
    [name |-> "Customer",
     monthly_salary |-> 50000,
     monthly_emi |-> 10000,
     credit_score |-> 750,
     credit_utilization |-> util,
     savings_change_pct |-> 0,
     loan_amount |-> 500000,
     current_salary_delay_days |-> 0,
     risk_score |-> rs,
     risk_level |-> IF rs = << >> THEN NullText ELSE RiskLevel(rs[1]),
     rare_case_type |-> rct,
     ability_score |-> ab,
     willingness_score |-> wi,
     bounce_count |-> bounces,
     utility_delay |-> 0,
     disc_spend |-> << >>]

\* the customers row itself: bounce_count stands for the customer's EMI_BOUNCE
\* rows of the transactions table, disc_spend for its Store / Dining rows, each
\* [day, amount], and utility_delay for the mean days_past_due of its
\* utility_payments rows
Core(row) ==
    [k \in DOMAIN row \ {"bounce_count", "disc_spend", "utility_delay"} |-> row[k]]

RECURSIVE SumAmount(_)
SumAmount(txs) == IF txs = << >> THEN 0 ELSE Head(txs).amount + SumAmount(Tail(txs))

IsRecent(tx, today) == tx.day >= today - 7
IsPast(tx, today) == tx.day < today - 21

\* lines 163-177: mean recent spend over mean past spend, in hundredths; a
\* timestamp is an ISO string compared with the date string of now - 7 days
\* (on or after that date: recent) and of now - 21 days (before: past)
DiscretionaryTrend(txs, today) ==
    LET recent == SelectSeq(txs, LAMBDA tx : IsRecent(tx, today))
        past == SelectSeq(txs, LAMBDA tx : IsPast(tx, today))
        rs == SumAmount(recent)
        ps == SumAmount(past)
    IN  IF recent = << >> THEN 0
        ELSE IF past = << >> THEN RoundHalfEven(100 * rs, Len(recent))
        ELSE RoundHalfEven(100 * rs * Len(past), Len(recent) * ps)

\* lines 88-177: the feature vector of a row at a given day
FeaturesOf(core, today) ==
    [name |-> core.name,
     f_monthly_salary |-> core.monthly_salary,
     f_credit_score |-> core.credit_score,
     f_credit_utilization |-> core.credit_utilization,
     f_savings_change_pct |-> core.savings_change_pct,
     f_loan_amount |-> core.loan_amount,
     f_monthly_emi |-> core.monthly_emi,
     t_current_salary_delay |-> core.current_salary_delay_days,
     f_db_ability |-> core.ability_score,
     f_db_willingness |-> core.willingness_score,
     f_db_rare_case_type |-> core.rare_case_type,
     \* no DEBIT and no Gambling rows: runway is 0.4 * salary, distress is 0
     financial_runway_days |-> (4 * core.monthly_salary) \div 10,
     distress_spend_ratio |-> 0,
     t_auto_debit_fail_count |-> core.bounce_count,
     t_discretionary_trend |-> DiscretionaryTrend(core.disc_spend, today)]

\* sha256(customer_id) % 10000 of the identifiers of the model
HashSeed(customer_id) ==
    CASE customer_id = "CUSR-100000" -> 6786
      [] customer_id = "CUSR-100010" -> 7497
      [] customer_id = "CUSR-100020" -> 9028
      [] OTHER -> 0

\* an answer for an unknown identifier made up from defaults
get_customer_detailed_default(st, customer_id, today) ==
    LET core == IF customer_id \in DOMAIN st THEN st[customer_id]
                ELSE Row(<< >>, NullText, << >>, << >>, 0, 0)
    IN  [core |-> Core(core),
         features |-> FeaturesOf(core, today),
         legacy_score |-> IF IsNull(core.risk_score) THEN 0 ELSE core.risk_score[1]]

\* FeatureStore.get_customer_detailed: {} when the customers table has no row
get_customer_detailed(st, customer_id, today) ==
    IF customer_id \notin DOMAIN st THEN EmptyDict
    ELSE LET core == st[customer_id]
         IN  [core |-> Core(core),
              features |-> FeaturesOf(core, today),
              \* core.get('risk_score') or 0
              legacy_score |-> IF IsNull(core.risk_score) THEN 0 ELSE core.risk_score[1]]

\* ------------------------------------------------------------------------
\*  MLRiskEngine.predict_ensemble
\* ------------------------------------------------------------------------
\* one model's score: its probability in percent clamped to [1, 99], 50 when
\* the call throws (<< >>)
AgentProb_unclamped(out) == IF out = << >> THEN 50 ELSE out[1]

AgentProb(out) == IF out = << >> THEN 50 ELSE Clamp(1, 99, out[1])

\* np.std of the three scores rounded to a whole percent: the scores are whole
\* percents, so 3 * std = sqrt(3 * sum of squares - square of sum); no tie occurs
StdPercent(x, l, s) ==
    LET q == 3 * (x * x + l * l + s * s) - (x + l + s) * (x + l + s)
    IN  CHOOSE k \in 0..100 :
            /\ (k = 0 \/ (6 * k - 3) * (6 * k - 3) <= 4 * q)
            /\ 4 * q < (6 * k + 3) * (6 * k + 3)

\* numpy's global generator: the state a process starts with, the state
\* np.random.seed(seed) puts it in, and the state after a draw. What
\* randint(-2, 3) draws is a function of the state (eng.draw).
RngBoot == [seeded |-> FALSE, seed |-> 0, drawn |-> FALSE]
RngSeeded(seed) == [seeded |-> TRUE, seed |-> seed, drawn |-> FALSE]
RngDrawn == [seeded |-> FALSE, seed |-> 0, drawn |-> TRUE]

DegradedReason == [error |-> <<"Models not loaded. Run: python train_from_db.py">>]

\* lines 122-133: the degraded result from the seed and the drawn jitter;
\* confidence_score is carried in hundredths
DegradedResult(base_seed, jitter) ==
    LET base_risk == (base_seed % 60) + 30
        live_risk == Max(10, Min(95, base_risk + jitter))
    IN  [fusion_score |-> live_risk,
         confidence_score |-> 50 + (base_seed % 40),
         agent_scores |->
             Agents(Clamp(1, 99, live_risk + ((base_seed % 10) - 5)),
                    Clamp(1, 99, live_risk + ((base_seed % 8) - 4)),
                    Clamp(1, 99, live_risk + ((base_seed % 12) - 6))),
         agent_reasoning |-> DegradedReason]

\* f.get(k1) or f.get(k2), through safe_num
Either(f, k1, k2) ==
    IF k1 \in DOMAIN f /\ f[k1] # 0 THEN f[k1] ELSE Get(f, k2, 0)

\* _get_ai_reasoning with SHAP disabled (shap_factors = []): the reasons are
\* derived from the feature values; the figures printed inside them are left out
FinancialReasons(f) ==
    LET util == Either(f, "f_credit_utilization", "credit_utilization")
        savings_pct == Either(f, "f_savings_change_pct", "savings_change_pct")
        runway == Get(f, "financial_runway_days", 30)
        r == (IF util > 70 THEN <<"AI Flag: Elevated Credit Usage is a key risk driver">>
              ELSE IF util > 50 THEN <<"AI Insight: Credit utilization - monitor for further drawdown">>
              ELSE << >>)
             \o (IF savings_pct < -25
                   THEN <<"AI Flag: Savings Depletion Pattern indicates liquidity stress">>
                 ELSE IF savings_pct < -10 THEN <<"AI Insight: Savings trend negative - early warning">>
                 ELSE << >>)
             \o (IF runway < 14 /\ runway > 0
                   THEN <<"AI Flag: Low financial runway - high default risk">>
                 ELSE << >>)
    IN  IF r = << >>
          THEN <<"AI Insight: Core financial indicators within acceptable range for this profile">>
        ELSE r

VelocityReasons(f) ==
    LET salary_delay == Either(f, "t_current_salary_delay", "current_salary_delay_days")
        failed_debits == Either(f, "t_auto_debit_fail_count", "failed_debits")
        r == (IF salary_delay > 7
                THEN <<"AI Flag: Delayed Salary Credits - strong delinquency signal">>
              ELSE IF salary_delay > 3
                THEN <<"AI Insight: Salary delay - trend and velocity agent flagging">>
              ELSE << >>)
             \o (IF failed_debits > 0
                   THEN <<"AI Flag: Recent EMI/Debit Failures detected - immediate attention">>
                 ELSE << >>)
    IN  IF r = << >>
          THEN <<"AI Insight: Payment and salary velocity stable - no trend escalation">>
        ELSE r

\* distress_spend_ratio is carried in thousandths
BehavioralReasons(f) ==
    LET lending == Either(f, "b_loan_inquiry_count", "lending_app_txns")
        distress == Get(f, "distress_spend_ratio", 0)
        r == (IF distress > 50
                THEN <<"AI Flag: High-Risk Merchant / distress spend ratio elevated - behavioral risk">>
              ELSE << >>)
             \o (IF lending > 3
                   THEN <<"AI Insight: High velocity loan inquiries - possible stress borrowing">>
                 ELSE << >>)
    IN  IF r = << >>
          THEN <<"AI Insight: Behavioral and transaction patterns within normal range">>
        ELSE r

StableFallback == <<"Stable indicators analyzed by ensemble">>

_get_ai_reasoning(f) ==
    IF f = EmptyDict
      THEN [financial |-> StableFallback, behavioral |-> StableFallback,
            velocity |-> StableFallback]
    ELSE [financial |-> FinancialReasons(f), behavioral |-> BehavioralReasons(f),
          velocity |-> VelocityReasons(f)]

\* lines 135-180: the three forward passes and their fusion
LoadedResult(eng, features) ==
    LET xgb_prob == AgentProb(eng.xgb)
        lgbm_prob == AgentProb(eng.lgbm)
        lstm_prob == AgentProb(eng.lstm)
    IN  [fusion_score |-> RoundHalfEven(4 * xgb_prob + 4 * lgbm_prob + 2 * lstm_prob, 10),
         confidence_score |->
             Max(60, Min(98, 100 - StdPercent(xgb_prob, lgbm_prob, lstm_prob))),
         agent_scores |-> Agents(xgb_prob, lgbm_prob, lstm_prob),
         agent_reasoning |-> _get_ai_reasoning(features),
         shap_explanation |-> << >>]

\* without np.random.seed(base_seed) the draw continues from whatever state
\* the generator is in
predict_ensemble_unseeded(eng, features, customer_id) ==
    IF ~eng.initialized
      THEN DegradedResult(HashSeed(customer_id), eng.draw[eng.rng])
    ELSE LoadedResult(eng, features)

predict_ensemble(eng, features, customer_id) ==
    IF ~eng.initialized
      THEN DegradedResult(HashSeed(customer_id), eng.draw[RngSeeded(HashSeed(customer_id))])
    ELSE LoadedResult(eng, features)

\* what the call leaves behind: in degraded mode the generator has been
\* seeded and drawn from
EngineAfterPredict(eng) ==
    IF eng.initialized THEN eng ELSE [eng EXCEPT !.rng = RngDrawn]

\* ------------------------------------------------------------------------
\*  RareCaseSolver.resolve_context
\*  Willingness is a float (credit_score / 900 * 100): it is carried in ninths.
\* ------------------------------------------------------------------------
resolve_context(features, ml_result, customer_id, time_jitter) ==
    LET base_seed == HashSeed(customer_id) % 100
        income == Get(features, "f_monthly_salary", 0)
        emi == Get(features, "f_monthly_emi", 0)
        savings_trend == Get(features, "f_savings_change_pct", 0)
        utilization == Get(features, "f_credit_utilization", 0)
        db_ability == Get(features, "f_db_ability", << >>)
        ability0 ==
            IF db_ability # << >>
              THEN db_ability[1] + ((base_seed % 12) - 6)
            ELSE 100
                 - (IF income > 0 /\ 10 * emi > 6 * income THEN 40
                    ELSE IF income > 0 /\ 10 * emi > 4 * income THEN 20 ELSE 0)
                 - (IF utilization > 85 THEN 30 ELSE IF utilization > 50 THEN 15 ELSE 0)
                 - (IF savings_trend < -20 THEN 15 ELSE 0)
                 + ((base_seed % 10) - 5)
        ability1 == Clamp(5, 100, ability0 + time_jitter)
        credit_score == Get(features, "f_credit_score", 750)
        avg_delay == Get(features, "t_avg_salary_delay", 0)
        gambling == Get(features, "f_gambling_to_income", 0)
        lending_apps == Get(features, "f_spend_lending_app_60d", 0)
        db_willingness == Get(features, "f_db_willingness", << >>)
        w0 ==
            IF db_willingness # << >>
              THEN 9 * (db_willingness[1] + (((base_seed * 7) % 18) - 9))
            ELSE credit_score
                 - (IF gambling > 50 THEN 9 * 40 ELSE 0)
                 - (IF lending_apps > 5000 THEN 9 * 20 ELSE 0)
                 - (IF avg_delay > 5 THEN 9 * 15 ELSE 0)
                 + 9 * (((base_seed * 7) % 15) - 7)
        w1 == Clamp(9 * 5, 9 * 99, w0 - 9 * time_jitter)
        db_case == Get(features, "f_db_rare_case_type", NullText)
        recalc == db_case \in {NullText, "", CT_Normal}
        forced == recalc /\ (base_seed % 10) = 7
        ability == IF forced THEN 80 + (base_seed % 15) ELSE ability1
        w9 == IF forced THEN 9 * (30 + (base_seed % 10)) ELSE w1
        case0 ==
            IF ~recalc THEN db_case
            ELSE IF forced THEN CT_Strategic
            ELSE IF ability > 60 /\ w9 < 9 * 50 THEN CT_Strategic
            ELSE IF ability < 40 /\ w9 > 9 * 60 THEN CT_Victim
            ELSE IF ability < 30 /\ w9 < 9 * 30 THEN CT_Insolvency
            ELSE CT_Normal
        case_type == IF recalc /\ ability > 80 /\ w9 > 9 * 80 THEN CT_Prime ELSE case0
        is_rare == case_type # CT_Normal /\ case_type # CT_Prime
    IN  [rare_case_detected |-> is_rare,
         case_type |-> case_type,
         ability_score |-> ability,
         willingness_score |-> w9 \div 9,
         governance_status |-> IF is_rare THEN "Escalate to Senior RM"
                               ELSE "Automated Recovery"]

\* ------------------------------------------------------------------------
\*  EWSOrchestratorService.analyze_customer_risk
\* ------------------------------------------------------------------------
NoRequest == [customer_id |-> ""]

\* the value of a one-element set: binds an intermediate result once
Only(S) == CHOOSE x \in S : TRUE

\* lines 280-301: the answer built from the results of the stages
AnalysisResponse(core, ml_result, context, display_score, legacy_score, intervention) ==
    [customer_info |-> core,
     risk_analysis |->
         [score |-> display_score,
          fusion_score |-> ml_result.fusion_score,
          legacy_score |-> legacy_score,
          level |-> RiskLevel(display_score),
          confidence |-> Get(ml_result, "confidence_score", 75),
          agent_contributions |->
              [financial |-> ml_result.agent_scores.xgboost_risk,
               behavioral |-> ml_result.agent_scores.lightgbm_risk,
               velocity |-> ml_result.agent_scores.lstm_pattern]],
     decision_intelligence |-> context,
     intervention |-> intervention]

\* lines 268-301: the intervention engine is called with the unified score, it
\* writes its audit entry, and the answer is returned
Intervene(log, timestamp, customer_id, detailed_data, ml_result, context, write_ok) ==
    LET legacy_score == Get(detailed_data, "legacy_score", 0)
        display_score == Max(ml_result.fusion_score, legacy_score)
        call == [customer_id |-> customer_id, features |-> detailed_data.features,
                 ml_result |-> ml_result, context |-> context,
                 unified_score |-> <<display_score>>]
    IN  Only({ IF r.kind = "raise"
                 THEN [response |-> r, req |-> call, log |-> log, write |-> NoWrite]
               ELSE Only({ [response |->
                                IF w.raised THEN Raise("IOError")
                                ELSE Return(AnalysisResponse(detailed_data.core, ml_result,
                                                context, display_score, legacy_score, r.value)),
                            req |-> call,
                            log |-> w.log,
                            write |-> [attempts |-> w.attempts, failed |-> ~write_ok]] :
                           w \in {_log_audit_trail(log, timestamp, customer_id,
                                                   r.value, write_ok)} }) :
               r \in {generate_intervention(customer_id, detailed_data.features, ml_result,
                                            context, <<display_score>>)} })

\* the whole handler: the answer, the arguments handed to the intervention
\* engine (NoRequest when it is not reached) and the audit write
analyze_customer_risk(st, eng, log, timestamp, customer_id, time_jitter, write_ok) ==
    IF customer_id = ""
      THEN [response |-> Return([error |-> "customer_id required"]),
            req |-> NoRequest, log |-> log, write |-> NoWrite]
    ELSE Only({
        IF detailed_data = EmptyDict
          THEN [response |-> Return([error |-> "Customer not found"]),
                req |-> [customer_id |-> customer_id], log |-> log, write |-> NoWrite]
        ELSE Only({
            Only({ Intervene(log, timestamp, customer_id, detailed_data, ml_result,
                             context, write_ok) :
                   context \in {resolve_context(detailed_data.features, ml_result,
                                                customer_id, time_jitter)} }) :
            ml_result \in {predict_ensemble(eng, detailed_data.features, customer_id)} }) :
        detailed_data \in {get_customer_detailed(st, customer_id, timestamp)} })

\* ---- the worlds of the service specification ----
LegacyScores == {<< >>, <<40>>, <<MaxScore>>}
DbCaseTypes == {NullText, CT_Normal, CT_DbVictim, CT_DbStrategic}
DbIndices == {<<<< >>, << >>>>, <<<<75>>, <<30>>>>}
Utilizations == {40, 90}

Rows ==
    {Row(rs, rct, aw[1], aw[2], util, b) :
        rs \in LegacyScores, rct \in DbCaseTypes, aw \in DbIndices,
        util \in Utilizations, b \in BounceCounts}

\* the customers table holds one of the identifiers, the other is unknown
Stores == {(c :> row) : c \in CustomerIds, row \in Rows}

\* the trained models are deterministic functions of the features: each world
\* fixes their outputs in percent (<< >>: the call throws); without models the
\* generator's draws are fixed per state (DrawTables)
\* the customers of the listing: those of CustomerIds and one more
ListIds == CustomerIds \cup {"CUSR-100020"}

RngStates == {RngBoot, RngDrawn} \cup {RngSeeded(HashSeed(c)) : c \in ListIds}

DrawTables == [RngStates -> {-2, 2}]

\* the service worlds vary the draws of the states their calls seed
ServiceDrawTables ==
    {t \in DrawTables :
        \A st \in RngStates \ {RngSeeded(HashSeed(c)) : c \in CustomerIds} : t[st] = -2}

ModelOutputs ==
    {<<<<100>>, <<100>>, <<100>>>>, <<<<0>>, <<0>>, <<0>>>>,
     <<<< >>, <<45>>, <<100>>>>, <<<<97>>, <<80>>, <<88>>>>}

Engines ==
    {[initialized |-> TRUE, xgb |-> o[1], lgbm |-> o[2], lstm |-> o[3]] : o \in ModelOutputs}
    \cup {[initialized |-> FALSE, rng |-> RngBoot, draw |-> t] : t \in ServiceDrawTables}

TimeJitters == -2..2

InitService ==
    /\ store \in Stores
    /\ engine \in Engines
    /\ req = NoRequest
    /\ response = NoResponse
    /\ auditLog = << >>
    /\ now = 0
    /\ calls = 0
    /\ lastWrite = NoWrite

AnalyzeCustomerRisk(customer_id, time_jitter, write_ok) ==
    /\ calls < MaxCalls
    /\ LET a == analyze_customer_risk(store, engine, auditLog, now, customer_id,
                                      time_jitter, write_ok)
       IN  /\ response' = a.response
           /\ req' = a.req
           /\ auditLog' = a.log
           /\ lastWrite' = a.write
           \* the ensemble has run exactly when the engine was reached
           /\ engine' = IF "ml_result" \in DOMAIN a.req THEN EngineAfterPredict(engine)
                         ELSE engine
    /\ now' = now + 1
    /\ calls' = calls + 1
    /\ UNCHANGED store

NextService ==
    \E customer_id \in CustomerIds \cup {""}, time_jitter \in TimeJitters, write_ok \in BOOLEAN :
        AnalyzeCustomerRisk(customer_id, time_jitter, write_ok)

SpecService == InitService /\ [][NextService]_vars

\* ------------------------------------------------------------------------
\*  Properties of analyze_customer_risk (SpecService)
\* ------------------------------------------------------------------------
Analysed == response.kind = "return" /\ "intervention" \in DOMAIN response.value

\* C2: the primary offer of a returned intervention has a risk cap at or above
\* the score the selection used; through analyze_customer_risk that score is
\* the larger of the fusion score and the stored legacy score.
C2_CapCoversScore ==
    Analysed =>
        /\ response.value.intervention.intervention_score
              = Max(response.value.risk_analysis.fusion_score,
                    response.value.risk_analysis.legacy_score)
        /\ OfferById(response.value.intervention.offer_id).max_risk
              >= response.value.intervention.intervention_score

\* C10: a call of analyze_customer_risk with a non-empty identifier that has no
\* row in the customers table answers exactly {"error": "Customer not found"}
\* and leaves the audit trail as it was.
C10_UnknownCustomerNotFound ==
    [][(calls' = calls + 1 /\ req'.customer_id # "" /\ req'.customer_id \notin DOMAIN store)
         => /\ response' = Return([error |-> "Customer not found"])
            /\ auditLog' = auditLog
            /\ lastWrite' = NoWrite]_vars

C10_Witness ==
    /\ calls = MaxCalls
    /\ Len(auditLog) = 1
    /\ req.customer_id # ""
    /\ req.customer_id \notin DOMAIN store
    /\ response = Return([error |-> "Customer not found"])

\* ------------------------------------------------------------------------
\*  predict_ensemble on its own (SpecEnsemble): every world fixes what the
\*  models answer or what the generator draws
\* ------------------------------------------------------------------------
EnsembleOutputs == {<< >>, <<-5>>, <<1>>, <<50>>, <<99>>, <<140>>}

EnsembleEngines ==
    {[initialized |-> TRUE, xgb |-> x, lgbm |-> l, lstm |-> s] :
        x \in EnsembleOutputs, l \in EnsembleOutputs, s \in EnsembleOutputs}
    \cup {[initialized |-> FALSE, rng |-> RngBoot, draw |-> t] : t \in DrawTables}

InitEnsemble ==
    /\ store = EmptyDict
    /\ engine \in EnsembleEngines
    /\ req = NoRequest
    /\ response = NoResponse
    /\ auditLog = << >>
    /\ now = 0
    /\ calls = 0
    /\ lastWrite = NoWrite

PredictEnsemble(customer_id) ==
    /\ calls < MaxCalls
    /\ response' = Return(predict_ensemble(engine, EmptyDict, customer_id))
    /\ req' = [customer_id |-> customer_id]
    /\ engine' = EngineAfterPredict(engine)
    /\ calls' = calls + 1
    /\ UNCHANGED <<store, auditLog, now, lastWrite>>

NextEnsemble == \E customer_id \in CustomerIds : PredictEnsemble(customer_id)

SpecEnsemble == InitEnsemble /\ [][NextEnsemble]_vars

\* C11: predict_ensemble returns a fusion score in 1..99, with the models
\* loaded (a throwing model counting as 50) and in degraded mode.
C11_FusionInRange ==
    (response.kind = "return" /\ "fusion_score" \in DOMAIN response.value)
        => response.value.fusion_score \in 1..99

\* C11 witness: one model threw and another answered far out of range.
C11_Witness ==
    /\ response.kind = "return"
    /\ engine.initialized
    /\ engine.xgb = << >>
    /\ engine.lgbm = <<140>>
    /\ engine.lstm = <<-5>>
    /\ response.value.fusion_score = 60

\* C20: without models every predict_ensemble call returns, its result carries
\* the degraded-operation reason, and a call with the same customer id as the
\* call before it returns the same fusion score, confidence and agent scores.
C20_DegradedIsSeeded ==
    [][(calls' = calls + 1 /\ ~engine.initialized)
         => /\ response'.kind = "return"
            /\ response'.value.agent_reasoning = DegradedReason
            /\ (response.kind = "return" /\ req.customer_id = req'.customer_id)
                 => /\ response'.value.fusion_score = response.value.fusion_score
                    /\ response'.value.confidence_score = response.value.confidence_score
                    /\ response'.value.agent_scores = response.value.agent_scores]_vars

\* C20 witness: a second degraded call for the same customer, made when the
\* generator would otherwise draw differently than it did at the start.
C20_Witness ==
    /\ calls = MaxCalls
    /\ ~engine.initialized
    /\ engine.rng = RngDrawn
    /\ engine.draw[RngBoot] # engine.draw[RngDrawn]
    /\ response.kind = "return"
    /\ response.value.agent_reasoning = DegradedReason

\* ------------------------------------------------------------------------
\*  FeatureStore.get_customers and BankRiskService.list_customers
\* ------------------------------------------------------------------------
Reverse(s) == [i \in 1..Len(s) |-> s[Len(s) + 1 - i]]

\* ORDER BY customer_id ASC compares the identifiers as text
IdRank(customer_id) ==
    CASE customer_id = "CUSR-100000" -> 1
      [] customer_id = "CUSR-100010" -> 2
      [] customer_id = "CUSR-100020" -> 3

\* name.lower() / search.lower() and the substrings of the lowered names
Lower(text) ==
    CASE text = "Asha" -> "asha"
      [] text = "Ravi" -> "ravi"
      [] text = "SH" -> "sh"
      [] OTHER -> text

Substrings(name) ==
    CASE name = "asha" -> {"", "a", "s", "h", "as", "sh", "ha", "ash", "sha", "asha"}
      [] name = "ravi" -> {"", "r", "a", "v", "i", "ra", "av", "vi", "rav", "avi", "ravi"}
      [] OTHER -> {"", name}

Signal(text, value) == [text |-> text, value |-> value]

\* lines 262-284: the heuristic signals of a row
HeuristicSignals(bounces, util_delay, sal_delay, score) ==
    (IF bounces > 0 THEN <<Signal("EMI Bounce Flag", bounces)>> ELSE << >>)
    \o (IF util_delay > 5 THEN <<Signal("Utility Latency Insight", util_delay)>> ELSE << >>)
    \o (IF sal_delay > 2 THEN <<Signal("Salary Credit Delay", sal_delay)>> ELSE << >>)
    \o (IF score >= 80 THEN <<Signal("Critical Ensemble Concern", 0)>>
        ELSE IF score >= 60 THEN <<Signal("High-Risk Exposure Detected", 0)>>
        ELSE << >>)

\* one listed customer: the row as a dict with its two sub-query columns and
\* the signals
ListedCustomer(customer_id, row) ==
    [customer_id |-> customer_id,
     name |-> row.name,
     credit_utilization |-> row.credit_utilization,
     current_salary_delay_days |-> row.current_salary_delay_days,
     risk_score |-> row.risk_score[1],
     risk_level |-> row.risk_level,
     bounce_count |-> row.bounce_count,
     avg_utility_delay |-> row.utility_delay,
     signals |-> HeuristicSignals(row.bounce_count, row.utility_delay,
                                  row.current_salary_delay_days, row.risk_score[1])]

\* the rows the query selects
Matched(st, risk_filter) ==
    {c \in DOMAIN st : risk_filter = "All" \/ st[c].risk_level = risk_filter}

Perms(S) == {o \in [1..Cardinality(S) -> S] : \A c \in S : \E i \in DOMAIN o : o[i] = c}

\* the orders the database may return them in: by identifier for "All", else
\* by stored score, highest first, rows of equal score in any order
SqlOrders(st, risk_filter) ==
    {o \in Perms(Matched(st, risk_filter)) :
        \A i \in 1..(Len(o) - 1) :
            IF risk_filter = "All" THEN IdRank(o[i]) < IdRank(o[i + 1])
            ELSE st[o[i]].risk_score[1] >= st[o[i + 1]].risk_score[1]}

get_customers(st, limit, risk_filter, search, order) ==
    LET limited == SubSeq(order, 1, Min(limit, Len(order)))
        kept == SelectSeq(limited,
                          LAMBDA c : Lower(search) = ""
                                     \/ Lower(search) \in Substrings(Lower(st[c].name)))
    IN  [customers |-> [i \in 1..Len(kept) |-> ListedCustomer(kept[i], st[kept[i]])],
         total |-> Cardinality(DOMAIN st),
         stats |-> [total |-> Cardinality(DOMAIN st),
                    critical |-> Cardinality({c \in DOMAIN st : st[c].risk_level = "Critical"}),
                    high |-> Cardinality({c \in DOMAIN st : st[c].risk_level = "High"}),
                    medium |-> Cardinality({c \in DOMAIN st : st[c].risk_level = "Medium"}),
                    low |-> Cardinality({c \in DOMAIN st : st[c].risk_level = "Low"})]]

\* ---- customers.sort(key=risk_score, reverse=True) ----
\* CPython sorts a short list by reversing it, finding the leading run,
\* inserting the remaining elements by binary search, and reversing again.
KeyLess(x, y) == x.risk_score < y.risk_score

RECURSIVE ExtendRun(_, _, _)
ExtendRun(a, n, descending) ==
    IF n < Len(a) /\ (IF descending THEN KeyLess(a[n + 1], a[n]) ELSE ~KeyLess(a[n + 1], a[n]))
      THEN ExtendRun(a, n + 1, descending)
    ELSE n

RECURSIVE InsertPos(_, _, _, _)
InsertPos(a, pivot, l, r) ==
    IF l < r
      THEN IF KeyLess(pivot, a[((l + r) \div 2) + 1])
             THEN InsertPos(a, pivot, l, (l + r) \div 2)
           ELSE InsertPos(a, pivot, ((l + r) \div 2) + 1, r)
    ELSE l

RECURSIVE BinarySort(_, _)
BinarySort(a, start) ==
    IF start >= Len(a) THEN a
    ELSE LET pos == InsertPos(a, a[start + 1], 0, start)
         IN  BinarySort(SubSeq(a, 1, pos) \o <<a[start + 1]>>
                            \o SubSeq(a, pos + 1, start) \o SubSeq(a, start + 2, Len(a)),
                        start + 1)

SortAscending(a) ==
    IF Len(a) < 2 THEN a
    ELSE LET descending == KeyLess(a[2], a[1])
             n == ExtendRun(a, 2, descending)
         IN  BinarySort(IF descending THEN Reverse(SubSeq(a, 1, n)) \o SubSeq(a, n + 1, Len(a))
                        ELSE a,
                        n)

SortByScoreDescending(customers) == Reverse(SortAscending(Reverse(customers)))

\* ---- the enrichment of one listed customer (service.py:135-178) ----
ReasonList(reasoning) ==
    IF "error" \in DOMAIN reasoning THEN reasoning.error
    ELSE reasoning.financial \o reasoning.behavioral \o reasoning.velocity

\* "Flag" in r or "Insight" in r
HasFlagOrInsight(r) == r \notin {StableFallback[1], DegradedReason.error[1]}

\* "stable", "normal range" or "acceptable" in r.lower()
HasCalmWord(r) ==
    r \in {StableFallback[1],
           "AI Insight: Core financial indicators within acceptable range for this profile",
           "AI Insight: Payment and salary velocity stable - no trend escalation",
           "AI Insight: Behavioral and transaction patterns within normal range"}

IsDeepInsight(r) == HasFlagOrInsight(r) /\ ~HasCalmWord(r)

EnrichWith(c, ml) ==
    LET deep == SelectSeq(ReasonList(ml.agent_reasoning), IsDeepInsight)
        score == Max(ml.fusion_score, c.risk_score)
    IN  [customer_id |-> c.customer_id,
         name |-> c.name,
         credit_utilization |-> c.credit_utilization,
         current_salary_delay_days |-> c.current_salary_delay_days,
         risk_score |-> score,
         risk_level |-> RiskLevel(score),
         bounce_count |-> c.bounce_count,
         avg_utility_delay |-> c.avg_utility_delay,
         signals |-> IF deep # << >>
                       THEN [i \in 1..Len(deep) |-> Signal(deep[i], -1)]
                     ELSE SubSeq(c.signals, 1, Min(3, Len(c.signals))),
         agent_scores |-> [xgboost |-> ml.agent_scores.xgboost_risk,
                           lightgbm |-> ml.agent_scores.lightgbm_risk,
                           lstm |-> ml.agent_scores.lstm_pattern]]

Enrich(st, eng, today, c) ==
    Only({ IF detailed = EmptyDict THEN c
           ELSE Only({ EnrichWith(c, ml) :
                       ml \in {predict_ensemble(eng, detailed.features, c.customer_id)} }) :
           detailed \in {get_customer_detailed(st, c.customer_id, today)} })

\* "deep enriching top 50" of a list of more than 100
EnrichCap == 50
EnrichThreshold == 100

EnrichLimit(customers) ==
    IF Len(customers) > EnrichThreshold THEN EnrichCap ELSE Len(customers)

\* the whole handler: the answer and how many customers were deep-enriched
list_customers(st, eng, today, risk_filter, search, limit, enrich_ml, order) ==
    Only({ IF ~enrich_ml THEN [result |-> result, enriched |-> 0]
           ELSE [result |->
                     [result EXCEPT !.customers =
                         SortByScoreDescending(
                             [i \in 1..Len(result.customers) |->
                                 IF i <= EnrichLimit(result.customers)
                                   THEN Enrich(st, eng, today, result.customers[i])
                                 ELSE result.customers[i]])],
                 enriched |-> EnrichLimit(result.customers)] :
           result \in {get_customers(st, limit, risk_filter, search, order)} })

\* ---- the worlds of the listing specification ----
ListRow(name, score, bounces) ==
    [Row(<<score>>, CT_Normal, << >>, << >>, 40, bounces) EXCEPT !.name = name]

ListRows ==
    {ListRow("Asha", 40, 0), ListRow("Ravi", 50, 2), ListRow("Asha", 82, 0),
     ListRow("Ravi", 82, 0), ListRow("Asha", 90, 2)}

ListStores == [ListIds -> ListRows]

ListEngines ==
    {[initialized |-> TRUE, xgb |-> <<97>>, lgbm |-> <<80>>, lstm |-> <<88>>],
     [initialized |-> TRUE, xgb |-> <<0>>, lgbm |-> <<0>>, lstm |-> <<0>>],
     [initialized |-> FALSE, rng |-> RngBoot, draw |-> [st \in RngStates |-> -2]]}

RiskFilters == {"All", "High", "Critical"}
Searches == {"", "SH"}
Limits == {2, 100}

InitList ==
    /\ store \in ListStores
    /\ engine \in ListEngines
    /\ req = NoRequest
    /\ response = NoResponse
    /\ auditLog = << >>
    /\ now = 0
    /\ calls = 0
    /\ lastWrite = NoWrite

ListCustomers(risk_filter, search, limit, enrich_ml) ==
    /\ calls = 0
    /\ \E order \in SqlOrders(store, risk_filter) :
          LET a == list_customers(store, engine, now, risk_filter, search, limit,
                                  enrich_ml, order)
          IN  /\ response' = Return(a.result)
              /\ engine' = IF a.enriched > 0 THEN EngineAfterPredict(engine) ELSE engine
    /\ req' = [risk_filter |-> risk_filter, search |-> search, limit |-> limit,
               enrich_ml |-> enrich_ml]
    /\ calls' = calls + 1
    /\ UNCHANGED <<store, auditLog, now, lastWrite>>

NextList ==
    \E risk_filter \in RiskFilters, search \in Searches, limit \in Limits,
       enrich_ml \in BOOLEAN :
        ListCustomers(risk_filter, search, limit, enrich_ml)

SpecList == InitList /\ [][NextList]_vars

\* ------------------------------------------------------------------------
\*  Properties of the listing (SpecList)
\* ------------------------------------------------------------------------
Listed == response.kind = "return" /\ "customers" \in DOMAIN response.value
Listing == response.value.customers

SignalTexts(c) == {c.signals[i].text : i \in 1..Len(c.signals)}

\* C12: every level or severity label surfaced with a score follows the one
\* partition (Critical from 85, High from 45, Medium from 30, else Low): the
\* risk_level of a listed customer, and the 'Critical' and 'High-Risk' signal
\* labels attached to it.
C12_LabelsFollowPartition ==
    Listed =>
        \A i \in 1..Len(Listing) :
            /\ Listing[i].risk_level = RiskLevel(Listing[i].risk_score)
            /\ ~req.enrich_ml =>
                 /\ "Critical Ensemble Concern" \in SignalTexts(Listing[i])
                       <=> RiskLevel(Listing[i].risk_score) = "Critical"
                 /\ "High-Risk Exposure Detected" \in SignalTexts(Listing[i])
                       <=> RiskLevel(Listing[i].risk_score) = "High"

\* C13: risk_filter 'All' lists in ascending identifier order, any other
\* filter in descending risk-score order, whatever search, limit and enrich_ml.
C13_ListOrder ==
    Listed =>
        \A i \in 1..(Len(Listing) - 1) :
            IF req.risk_filter = "All"
              THEN IdRank(Listing[i].customer_id) < IdRank(Listing[i + 1].customer_id)
            ELSE Listing[i].risk_score >= Listing[i + 1].risk_score

\* ------------------------------------------------------------------------
\*  resolve_context on its own (SpecContext): the request is a feature map
\*  and a customer id, each call is made at some millisecond of the clock
\* ------------------------------------------------------------------------
ContextFeatures ==
    [f_monthly_salary : {50000},
     f_monthly_emi : {10000, 35000},
     f_savings_change_pct : {0, -30},
     f_credit_utilization : {40, 90},
     f_credit_score : {450, 750},
     f_gambling_to_income : {0, 60},
     f_db_ability : {<< >>, <<75>>, <<-50>>, <<500>>},
     f_db_willingness : {<< >>, <<30>>, <<500>>},
     f_db_rare_case_type : {NullText, CT_Normal, CT_DbVictim}]

ContextRequests == [features : ContextFeatures, customer_id : ListIds]

InitContext ==
    /\ store = EmptyDict
    /\ engine = NoEngine
    /\ req \in ContextRequests
    /\ response = NoResponse
    /\ auditLog = << >>
    /\ now = 0
    /\ calls = 0
    /\ lastWrite = NoWrite

ResolveContext(time_jitter) ==
    /\ calls < MaxCalls
    /\ response' = Return(resolve_context(req.features, EmptyDict, req.customer_id,
                                          time_jitter))
    /\ calls' = calls + 1
    /\ UNCHANGED <<store, engine, req, auditLog, now, lastWrite>>

NextContext == \E time_jitter \in TimeJitters : ResolveContext(time_jitter)

SpecContext == InitContext /\ [][NextContext]_vars

Resolved == response.kind = "return" /\ "ability_score" \in DOMAIN response.value

\* C16: resolve_context returns ability_score in 5..100 and willingness_score
\* in 5..99 for every feature map, persisted value, customer id and time, the
\* path that forces the case type from the id hash included.
C16_ScoresClamped ==
    Resolved => /\ response.value.ability_score \in 5..100
                /\ response.value.willingness_score \in 5..99

\* C16 witness: persisted values far above the bounds come back as 100 and 99.
C16_Witness ==
    /\ Resolved
    /\ req.features.f_db_ability = <<500>>
    /\ req.features.f_db_willingness = <<500>>
    /\ response.value.ability_score = 100
    /\ response.value.willingness_score = 99

\* the ordered rules of the claim applied to a pair of scores
RuleCase(ability, willingness) ==
    IF ability > 60 /\ willingness < 50 THEN CT_Strategic
    ELSE IF ability < 40 /\ willingness > 60 THEN CT_Victim
    ELSE IF ability < 30 /\ willingness < 30 THEN CT_Insolvency
    ELSE IF ability > 80 /\ willingness > 80 THEN CT_Prime
    ELSE CT_Normal

NoPersistedCase == req.features.f_db_rare_case_type \in {NullText, "", CT_Normal}

\* C17: without a persisted non-Normal case type, the returned case_type is
\* the one the ordered rules give for the returned ability and willingness.
C17_CaseFollowsReturnedScores ==
    (Resolved /\ NoPersistedCase)
        => response.value.case_type
              = RuleCase(response.value.ability_score, response.value.willingness_score)

\* the penalties of the claim
AbilityFormula(f) ==
    Clamp(5, 100,
          100
          - (IF 10 * f.f_monthly_emi > 6 * f.f_monthly_salary THEN 40
             ELSE IF 10 * f.f_monthly_emi > 4 * f.f_monthly_salary THEN 20 ELSE 0)
          - (IF f.f_credit_utilization > 85 THEN 30
             ELSE IF f.f_credit_utilization > 50 THEN 15 ELSE 0)
          - (IF f.f_savings_change_pct < -20 THEN 15 ELSE 0))

\* C18: without a persisted ability, the returned ability_score is 100 minus
\* the penalties, clamped to 5..100, and depends on nothing else.
C18_AbilityIsFormula ==
    (Resolved /\ req.features.f_db_ability = << >>)
        => response.value.ability_score = AbilityFormula(req.features)

\* C19: a persisted ability (willingness) is returned as it is, clamped to
\* its bounds.
C19_PersistedTakesPrecedence ==
    Resolved =>
        /\ req.features.f_db_ability # << >>
              => response.value.ability_score = Clamp(5, 100, req.features.f_db_ability[1])
        /\ req.features.f_db_willingness # << >>
              => response.value.willingness_score
                    = Clamp(5, 99, req.features.f_db_willingness[1])

\* C14: for a fixed customer id, fixed features and a fixed risk assessment,
\* a run of the pipeline returns the same ability, willingness, case type,
\* primary offer and fallback offer as the run before it.
C14_PipelineRepeats ==
    [][(/\ calls' = calls + 1
        /\ Analysed
        /\ response'.kind = "return" /\ "intervention" \in DOMAIN response'.value
        /\ req'.customer_id = req.customer_id
        /\ req'.features = req.features
        /\ req'.ml_result = req.ml_result)
         => /\ response'.value.decision_intelligence.ability_score
                  = response.value.decision_intelligence.ability_score
            /\ response'.value.decision_intelligence.willingness_score
                  = response.value.decision_intelligence.willingness_score
            /\ response'.value.decision_intelligence.case_type
                  = response.value.decision_intelligence.case_type
            /\ response'.value.intervention.offer_id = response.value.intervention.offer_id
            /\ response'.value.intervention.fallback_offer
                  = response.value.intervention.fallback_offer]_vars

\* ------------------------------------------------------------------------
\*  FeatureStore.calculate_risk_score
\* ------------------------------------------------------------------------
\* lines 63-67: the action label, without the customer name and the
\* utilization percent the code interpolates into it
SuggestedAction(delay, util) ==
    IF delay > 20 THEN "CRITICAL: Send Legal Notice"
    ELSE IF delay > 7 THEN "Call: Offer Salary Advance"
    ELSE IF util > 80 THEN "Freeze Card Limit"
    ELSE "Standard Monitoring"

\* int(sha256(str(customer_id))) % 10 is the last digit of HashSeed
calculate_risk_score(customer_id, row) ==
    LET delay == row.current_salary_delay_days
        util == row.credit_utilization
        savings_change == row.savings_change_pct
        score == Min(99, Max(1,
                     15 + (IF delay > 3 THEN 20 ELSE 0) + (IF delay > 7 THEN 30 ELSE 0)
                        + (IF delay > 20 THEN 30 ELSE 0) + (IF util > 80 THEN 20 ELSE 0)
                        + (IF savings_change < -20 THEN 15 ELSE 0)
                        + (HashSeed(customer_id) % 10)))
    IN  [score |-> score,
         level |-> RiskLevel(score),
         suggested_action |-> SuggestedAction(delay, util)]

\* ------------------------------------------------------------------------
\*  Feature derivation over time (SpecFeatures): the records stay as they
\*  are while the days pass
\* ------------------------------------------------------------------------
MaxDay == 3

Tx(day, amount) == [day |-> day, amount |-> amount]

\* Store / Dining transactions of the last 30 days before day 0
DiscSpends ==
    {<< >>,
     <<Tx(-25, 400), Tx(-6, 100), Tx(-1, 300)>>,
     <<Tx(-6, 100), Tx(-5, 200)>>,
     <<Tx(-24, 200), Tx(-23, 300), Tx(-2, 500)>>}

FeatureRows ==
    {[Row(<<40>>, CT_Normal, << >>, << >>, util, b) EXCEPT !.disc_spend = d] :
        util \in Utilizations, b \in BounceCounts, d \in DiscSpends}

FeatureStoreStates == {(c :> row) : c \in CustomerIds, row \in FeatureRows}

InitFeatures ==
    /\ store \in FeatureStoreStates
    /\ engine = NoEngine
    /\ req = NoRequest
    /\ response = NoResponse
    /\ auditLog = << >>
    /\ now = 0
    /\ calls = 0
    /\ lastWrite = NoWrite

GetCustomerDetailed(customer_id) ==
    /\ calls < MaxCalls
    /\ response' = Return(get_customer_detailed(store, customer_id, now))
    /\ req' = [op |-> "get_customer_detailed", customer_id |-> customer_id]
    /\ calls' = calls + 1
    /\ UNCHANGED <<store, engine, auditLog, now, lastWrite>>

CalculateRiskScore(customer_id) ==
    /\ calls < MaxCalls
    /\ customer_id \in DOMAIN store
    /\ response' = Return(calculate_risk_score(customer_id, store[customer_id]))
    /\ req' = [op |-> "calculate_risk_score", customer_id |-> customer_id]
    /\ calls' = calls + 1
    /\ UNCHANGED <<store, engine, auditLog, now, lastWrite>>

\* a day passes; nothing is written
Tick ==
    /\ now < MaxDay
    /\ now' = now + 1
    /\ UNCHANGED <<store, engine, req, response, auditLog, calls, lastWrite>>

NextFeatures ==
    \/ \E customer_id \in CustomerIds : GetCustomerDetailed(customer_id)
    \/ \E customer_id \in CustomerIds : CalculateRiskScore(customer_id)
    \/ Tick

SpecFeatures == InitFeatures /\ [][NextFeatures]_vars

\* C15: for a fixed customer id and unchanged records, a derivation by
\* get_customer_detailed returns the feature vector of the derivation before
\* it, whenever the two are made, and calculate_risk_score the same score.
C15_DerivationRepeats ==
    [][(/\ calls' = calls + 1
        /\ "op" \in DOMAIN req
        /\ req' = req)
         => response' = response]_vars

\* ------------------------------------------------------------------------
\*  _pick_with_governance on its own (SpecPick): any category with any of the
\*  priority lists of _select_offers
\* ------------------------------------------------------------------------
PriorityLists ==
    {<<5, 4, 3>>, <<0, 1, 4>>, <<5, 3, 1>>, <<1, 3, 5>>, <<0, 1>>, <<3, 4, 6>>,
     <<0, 1, 2>>, <<2, 0>>, <<1, 2, 3>>, <<0, 4, 5>>, <<2, 0, 1>>, <<4, 5, 0>>,
     <<0, 2, 3>>, <<3, 4, 0>>, <<2, 0, 4>>, <<5, 0, 4>>, <<0, 4>>}

PickFeatures == [t_auto_debit_fail_count : BounceCounts]

PickRequests ==
    [category : Categories, indices : PriorityLists, score : Scores,
     features : PickFeatures]

InitPick ==
    /\ store = EmptyDict
    /\ engine = NoEngine
    /\ req \in PickRequests
    /\ response = NoResponse
    /\ auditLog = << >>
    /\ now = 0
    /\ calls = 0
    /\ lastWrite = NoWrite

PickWithGovernance ==
    /\ calls < MaxCalls
    /\ response' = Return(_pick_with_governance(req.category, req.indices,
                                                req.score, req.features))
    /\ calls' = calls + 1
    /\ UNCHANGED <<store, engine, req, auditLog, now, lastWrite>>

NextPick == PickWithGovernance

SpecPick == InitPick /\ [][NextPick]_vars

Passes(offer) == _governance_check(offer, req.score, req.features).approved

\* the listed positions, in list order, whose offer exists and passes
ListedPassing ==
    SelectSeq(req.indices,
              LAMBDA idx : /\ idx < Len(CategoryOffers(req.category))
                           /\ Passes(CategoryOffers(req.category)[idx + 1]))

\* the catalog positions (1-based) of the category whose offer passes
CatalogPassing ==
    {i \in 1..Len(CategoryOffers(req.category)) : Passes(CategoryOffers(req.category)[i])}

FirstOf(S) == CHOOSE i \in S : \A j \in S : i <= j

\* C25: the primary is the first offer, in the order of the priority list,
\* that passes governance and the fallback the next listed one that passes
\* (none if there is none); only when no listed offer passes is the primary
\* the first passing offer of the category in catalog order, without a
\* fallback (the manual-review offer when the whole category is blocked).
C25_PickFollowsPriority ==
    Returned =>
        LET offers == CategoryOffers(req.category)
            picked == response.value
        IN  IF ListedPassing # << >>
              THEN /\ picked.category = req.category
                   /\ picked.primary.id = offers[ListedPassing[1] + 1].id
                   /\ IF Len(ListedPassing) >= 2
                        THEN /\ picked.fallback # None
                             /\ picked.fallback.id = offers[ListedPassing[2] + 1].id
                      ELSE picked.fallback = None
            ELSE /\ picked.fallback = None
                 /\ IF CatalogPassing # {}
                      THEN /\ picked.category = req.category
                           /\ picked.primary.id = offers[FirstOf(CatalogPassing)].id
                    ELSE /\ picked.category = "governance"
                         /\ picked.primary.id = "OFF-RM-REVIEW"

\* C25 witness: the exposure-increasing OFF-SALARY-ADV heads the list at score
\* 70 and is skipped; the next listed offer that passes is the primary.
C25_Witness ==
    /\ Returned
    /\ req.category = "liquidity_relief" /\ req.indices = <<5, 0, 4>> /\ req.score = 70
    /\ response.value.primary.id = "OFF-EMI-DATESHIFT"
    /\ response.value.fallback.id = "OFF-SPLIT-EMI"

\* ------------------------------------------------------------------------
\*  _fairness_check on its own (SpecFairness)
\* ------------------------------------------------------------------------
FairnessCaseTypes == CaseTypes \cup {CT_DbStrategic, CT_DbVictim}

FairnessFeatures == {EmptyDict, [f_product_type |-> "Home Loan", f_city |-> "Pune"]}

FairnessRequests ==
    [category : Categories, case_type : FairnessCaseTypes, score : Scores,
     features : FairnessFeatures]

InitFairness ==
    /\ store = EmptyDict
    /\ engine = NoEngine
    /\ req \in FairnessRequests
    /\ response = NoResponse
    /\ auditLog = << >>
    /\ now = 0
    /\ calls = 0
    /\ lastWrite = NoWrite

FairnessCheck ==
    /\ calls < MaxCalls
    /\ response' = Return(_fairness_check(req.category, req.case_type, req.score,
                                          req.features))
    /\ calls' = calls + 1
    /\ UNCHANGED <<store, engine, req, auditLog, now, lastWrite>>

NextFairness == FairnessCheck

SpecFairness == InitFairness /\ [][NextFairness]_vars

\* C26: the fairness check returns REVIEW whenever the category is Governance,
\* the case type is not a Strategic Defaulter and the score is below 75; it
\* never returns REVIEW for a Strategic Defaulter or for another category.
C26_ReviewForPunitiveOnly ==
    Returned =>
        /\ (/\ req.category = "governance"
            /\ req.case_type \notin {CT_Strategic, CT_DbStrategic}
            /\ req.score < 75) => response.value.flag = "REVIEW"
        /\ response.value.flag = "REVIEW" =>
              /\ req.category = "governance"
              /\ req.case_type \notin {CT_Strategic, CT_DbStrategic}

\* C26 witness: Governance for a Victim of Circumstance at score 60 is flagged.
C26_Witness ==
    /\ Returned
    /\ req.category = "governance" /\ req.case_type = CT_Victim /\ req.score = 60
    /\ response.value.flag = "REVIEW"

\* ------------------------------------------------------------------------
\*  Further properties of the engine (Spec)
\* ------------------------------------------------------------------------
\* the agent with the highest score; financial before behavioral before velocity
HighestAgent(a) ==
    LET top == Max(a.xgboost_risk, Max(a.lightgbm_risk, a.lstm_pattern))
    IN  IF a.xgboost_risk = top THEN "financial"
        ELSE IF a.lightgbm_risk = top THEN "behavioral"
        ELSE "velocity"

C29_FairnessAlwaysClear ==
    (Returned /\ ReqScore \in 1..99) =>
        /\ Result.fairness_check.flag = "CLEAR"
        /\ Result.offer_category = OFFER_CATALOG["governance"].label =>
              \/ req.context.case_type = CT_Strategic
              \/ ReqScore >= 86

\* C29 witness: a Victim of Circumstance at score 87, for whom every Liquidity
\* Relief offer is blocked, is given the Governance manual review, unflagged.
C29_Witness ==
    /\ Returned /\ ReqScore = 87 /\ req.context.case_type = CT_Victim
    /\ Result.offer_category = OFFER_CATALOG["governance"].label
    /\ Result.fairness_check.flag = "CLEAR"

SalaryAdvance == OfferById("OFF-SALARY-ADV")

LeadAgents == {"financial", "behavioral", "velocity"}

\* the priority lists of cascade rule 4 and of cascade rule 5
Rule4Choices ==
    {Choice("behavioral_correction", <<1, 2, 3>>), Choice("behavioral_correction", <<0, 4, 5>>)}
Rule5Choices ==
    {Choice("restructuring", <<2, 0, 1>>), Choice("restructuring", <<4, 5, 0>>)}

\* C28: for a context returned by resolve_context for a customer without a
\* persisted case type, at every score and with every lead agent the cascade
\* stops at a rule other than rule 4 (ability > 60, willingness < 40) and
\* rule 5 (ability < 40, willingness > 60): such a context is classified
\* Strategic Defaulter or Victim of Circumstance.
C28_Rules4And5Unreached ==
    (Resolved /\ NoPersistedCase) =>
        LET c == response.value
        IN  /\ ((c.ability_score > 60 /\ c.willingness_score < 40)
                 \/ (c.ability_score < 40 /\ c.willingness_score > 60))
                  => c.case_type \in {CT_Strategic, CT_Victim}
            /\ \A score \in Scores, lead_agent \in LeadAgents :
                  CascadeChoice(score, c.ability_score, c.willingness_score,
                                c.case_type, lead_agent, req.features)
                      \notin (Rule4Choices \cup Rule5Choices)

\* C28 witness: a context with ability above 60 and willingness below 40 that
\* the resolver derived from the features (the id hash does not force it) and
\* that the cascade sends to Governance at score 60.
C28_Witness ==
    /\ Resolved /\ NoPersistedCase
    /\ req.customer_id = "CUSR-100000"
    /\ response.value.ability_score > 60 /\ response.value.willingness_score < 40
    /\ response.value.case_type = CT_Strategic
    /\ CascadeChoice(60, response.value.ability_score, response.value.willingness_score,
                     response.value.case_type, "financial", req.features).category
           = "governance"

\* ------------------------------------------------------------------------
\*  list_customers over large stores (SpecEnrich): risk_filter 'All', no
\*  search, loaded models
\* ------------------------------------------------------------------------
\* customer ids as setup_db.py writes them: CUSR- and a six-digit number
BigId(n) == "CUSR-" \o ToString(100000 + n)

StoreSizes == {3, 50, 51, 60, 100, 101, 120}

BigStores ==
    {[c \in {BigId(n) : n \in 0..(size - 1)} |-> row] : size \in StoreSizes, row \in ListRows}

\* ORDER BY customer_id ASC: the ids have one length, so text order is number order
AscendingIds(st) == [i \in 1..Cardinality(DOMAIN st) |-> BigId(i - 1)]

LoadedEngines == {e \in ListEngines : e.initialized}

PageLimits == {100, 200}

InitEnrich ==
    /\ store \in BigStores
    /\ engine \in LoadedEngines
    /\ req = NoRequest
    /\ response = NoResponse
    /\ auditLog = << >>
    /\ now = 0
    /\ calls = 0
    /\ lastWrite = NoWrite

ListAll(limit, enrich_ml) ==
    /\ calls = 0
    /\ LET a == list_customers(store, engine, now, "All", "", limit, enrich_ml,
                               AscendingIds(store))
       IN  /\ response' = Return(a.result)
           /\ engine' = IF a.enriched > 0 THEN EngineAfterPredict(engine) ELSE engine
    /\ req' = [risk_filter |-> "All", search |-> "", limit |-> limit,
               enrich_ml |-> enrich_ml]
    /\ calls' = calls + 1
    /\ UNCHANGED <<store, auditLog, now, lastWrite>>

NextEnrich == \E limit \in PageLimits, enrich_ml \in BOOLEAN : ListAll(limit, enrich_ml)

SpecEnrich == InitEnrich /\ [][NextEnrich]_vars

\* the listed customers that went through feature derivation and inference:
\* the handler attaches agent_scores to exactly those
DeepEnriched == {i \in 1..Len(Listing) : "agent_scores" \in DOMAIN Listing[i]}

LevelName(risk_level) == IF risk_level = NullText THEN "Unclassified" ELSE risk_level

\* FeatureStore.get_dashboard_stats, the distribution of the stored levels
\* (GROUP BY risk_level); the geography, product, trend and alert aggregates
\* are further reads of the same table
get_dashboard_stats(st) ==
    LET levels == {LevelName(st[c].risk_level) : c \in DOMAIN st}
    IN  [total_customers |-> Cardinality(DOMAIN st),
         risk_distribution |->
             [l \in levels |->
                 Cardinality({c \in DOMAIN st : LevelName(st[c].risk_level) = l})]]

\* rows added to the table by hand carry no score (or a zero) until scored
PendingScores == {<< >>, <<0>>, <<40>>, <<90>>}

DashboardRows ==
    {Row(rs, CT_Normal, << >>, << >>, util, 0) : rs \in PendingScores, util \in Utilizations}

DashboardStores == [CustomerIds -> DashboardRows]

InitDashboard ==
    /\ store \in DashboardStores
    /\ engine \in ListEngines
    /\ req = NoRequest
    /\ response = NoResponse
    /\ auditLog = << >>
    /\ now = 0
    /\ calls = 0
    /\ lastWrite = NoWrite

\* service.py:196-202: the call of sync_pending_customers is commented out; the
\* handler reads the table and draws the trend noise from the global generator
GetDashboardStats ==
    /\ calls < MaxCalls
    /\ response' = Return(get_dashboard_stats(store))
    /\ engine' = EngineAfterPredict(engine)
    /\ req' = [op |-> "get_dashboard_stats"]
    /\ calls' = calls + 1
    /\ UNCHANGED <<store, auditLog, now, lastWrite>>

NextDashboard == GetDashboardStats

SpecDashboard == InitDashboard /\ [][NextDashboard]_vars

Pending(row) == row.risk_score = << >> \/ row.risk_score[1] <= 0

\* C23 (as claimed): after a call of get_dashboard_stats every customer whose
\* stored risk_score was NULL or <= 0 has a positive stored risk_score and the
\* stored risk_level derived from it.
C23_DashboardSyncsPending ==
    [][calls' = calls + 1 =>
          \A c \in DOMAIN store :
              Pending(store[c]) =>
                  /\ c \in DOMAIN store'
                  /\ store'[c].risk_score # << >>
                  /\ store'[c].risk_score[1] > 0
                  /\ store'[c].risk_level = RiskLevel(store'[c].risk_score[1])]_vars

\* ------------------------------------------------------------------------
\*  Concurrent pipeline runs (SpecConcurrent): one run of
\*  analyze_customer_risk per customer, the runs sharing the module-level
\*  store, engines, audit file and numpy's process-wide generator. A step is
\*  one stage call; the degraded predict_ensemble touches the shared generator
\*  twice (np.random.seed, then np.random.randint), each touch a step.
\* ------------------------------------------------------------------------
Runs == CustomerIds

RunStart ==
    [pc |-> "fetch", detailed |-> EmptyDict, ml_result |-> EmptyDict,
     context |-> EmptyDict, time_jitter |-> 0]

ConcurrentRows == {Row(<<40>>, NullText, << >>, << >>, util, 0) : util \in Utilizations}

ConcurrentStores == [CustomerIds -> ConcurrentRows]

\* randint(-2, 3) right after np.random.seed(seed), for the seeds of the
\* model's identifiers (MT19937 seeded with 6786, 7497, 9028); the draw after
\* that one is -1 for 6786 and -2 for 7497
ConcurrentDrawTables ==
    {t \in [RngStates -> -2..2] :
        /\ t[RngSeeded(6786)] = 0
        /\ t[RngSeeded(7497)] = -1
        /\ t[RngSeeded(9028)] = 2
        /\ t[RngBoot] = 0
        /\ t[RngDrawn] \in {-2, -1}}

ConcurrentEngines ==
    {[initialized |-> TRUE, xgb |-> <<97>>, lgbm |-> <<80>>, lstm |-> <<88>>]}
    \cup {[initialized |-> FALSE, rng |-> RngBoot, draw |-> t] : t \in ConcurrentDrawTables}

InitConcurrent ==
    /\ store \in ConcurrentStores
    /\ engine \in ConcurrentEngines
    /\ req = [r \in Runs |-> RunStart]
    /\ response = [r \in Runs |-> NoResponse]
    /\ auditLog = << >>
    /\ now = 0
    /\ calls = 0
    /\ lastWrite = NoWrite

\* service.py:248: feature_store.get_customer_detailed
Fetch(r) ==
    /\ req[r].pc = "fetch"
    /\ req' = [req EXCEPT ![r].detailed = get_customer_detailed(store, r, now),
                          ![r].pc = "predict"]
    /\ UNCHANGED <<store, engine, response, auditLog, now, calls, lastWrite>>

\* ml_engine.py:119-121: degraded mode seeds the process-wide generator
Seed(r) ==
    /\ req[r].pc = "predict"
    /\ ~engine.initialized
    /\ engine' = [engine EXCEPT !.rng = RngSeeded(HashSeed(r))]
    /\ req' = [req EXCEPT ![r].pc = "draw"]
    /\ UNCHANGED <<store, response, auditLog, now, calls, lastWrite>>

\* ml_engine.py:122-133: the jitter is drawn from the generator as it is now
Draw(r) ==
    /\ req[r].pc = "draw"
    /\ req' = [req EXCEPT ![r].ml_result =
                              DegradedResult(HashSeed(r), engine.draw[engine.rng]),
                          ![r].pc = "resolve"]
    /\ engine' = [engine EXCEPT !.rng = RngDrawn]
    /\ UNCHANGED <<store, response, auditLog, now, calls, lastWrite>>

\* ml_engine.py:135-180: with models loaded, the forward passes
Forward(r) ==
    /\ req[r].pc = "predict"
    /\ engine.initialized
    /\ req' = [req EXCEPT ![r].ml_result = LoadedResult(engine, req[r].detailed.features),
                          ![r].pc = "resolve"]
    /\ UNCHANGED <<store, engine, response, auditLog, now, calls, lastWrite>>

\* service.py:259: context_solver.resolve_context, reading the clock
Resolve(r, time_jitter) ==
    /\ req[r].pc = "resolve"
    /\ req' = [req EXCEPT ![r].context =
                              resolve_context(req[r].detailed.features, req[r].ml_result,
                                              r, time_jitter),
                          ![r].time_jitter = time_jitter,
                          ![r].pc = "intervene"]
    /\ UNCHANGED <<store, engine, response, auditLog, now, calls, lastWrite>>

\* service.py:262-301: the intervention, its audit entry, the answer
Respond(r, write_ok) ==
    /\ req[r].pc = "intervene"
    /\ LET a == Intervene(auditLog, now, r, req[r].detailed, req[r].ml_result,
                          req[r].context, write_ok)
       IN  /\ response' = [response EXCEPT ![r] = a.response]
           /\ auditLog' = a.log
           /\ lastWrite' = a.write
    /\ req' = [req EXCEPT ![r].pc = "done"]
    /\ now' = now + 1
    /\ calls' = calls + 1
    /\ UNCHANGED <<store, engine>>

NextConcurrent ==
    \E r \in Runs :
        \/ Fetch(r)
        \/ Seed(r)
        \/ Draw(r)
        \/ Forward(r)
        \/ \E time_jitter \in TimeJitters : Resolve(r, time_jitter)
        \/ \E write_ok \in BOOLEAN : Respond(r, write_ok)

SpecConcurrent == InitConcurrent /\ [][NextConcurrent]_vars

\* what the run for r returns when it is the only run, at the clock reading
\* the run met
AloneResponse(r) ==
    analyze_customer_risk(store, engine, << >>, 0, r, req[r].time_jitter, TRUE).response

\* C22 (as claimed): in any interleaving of the steps of runs for different
\* customers, each finished run has returned the risk assessment, decision
\* context and intervention it returns when run alone, degraded-mode scoring
\* included.
C22_RunsIndependent ==
    \A r \in Runs : req[r].pc = "done" => response[r] = AloneResponse(r)

\* ------------------------------------------------------------------------
\*  Missing, null and non-numeric fields (SpecDefaults): a value of a feature
\*  map is a number, Python's None or a string that is not a number; a key
\*  may be absent
\* ------------------------------------------------------------------------
Num(n) == [tag |-> "num", n |-> n]
PyNone == [tag |-> "None", n |-> 0]
NonNumeric == [tag |-> "str", n |-> 0]

\* ml_engine.safe_num: the default on None and on a failed float(val)
safe_num(val, default) == IF val.tag = "num" THEN val.n ELSE default

\* calculate_risk_score's get_safe with its default 0.0: row.get(key), the
\* default on None and on a failed dtype(val)
get_safe(row, key) == safe_num(Get(row, key, PyNone), 0)

\* the row as calculate_risk_score reads it through get_safe
SafeRow(row) ==
    [current_salary_delay_days |-> get_safe(row, "current_salary_delay_days"),
     credit_utilization |-> get_safe(row, "credit_utilization"),
     savings_change_pct |-> get_safe(row, "savings_change_pct")]

\* the map as predict_ensemble and resolve_context read it through
\* safe_num(features.get(key), default): a value safe_num passes on stays, a
\* value it replaces is left out, so that the reader's own default applies
SafeNumbers(features) ==
    [k \in {k \in DOMAIN features : features[k].tag = "num"} \cup {"name"} |->
        IF k = "name" THEN "Customer" ELSE features[k].n]

\* x or default
PyOr(v, default) ==
    IF v.tag = "None" \/ (v.tag = "num" /\ v.n = 0) THEN default ELSE v

\* float(v): the exception it raises, "" when it returns
PyFloat(v) ==
    IF v.tag = "num" THEN ""
    ELSE IF v.tag = "None" THEN "TypeError"
    ELSE "ValueError"

\* the first of the errors, in the order the lines run
FirstError(errors) ==
    IF \A i \in DOMAIN errors : errors[i] = "" THEN ""
    ELSE errors[CHOOSE i \in DOMAIN errors :
                    errors[i] # "" /\ \A j \in 1..(i - 1) : errors[j] = ""]

\* generate_intervention lines 258-261 and _select_offers line 143
\*   258  float(features.get('f_monthly_salary') or 50000)
\*   259  float(features.get('f_monthly_emi') or 0)
\*   261  features.get('f_savings_account_balance', 0)
\*          * (features.get('f_savings_change_pct', 0) / 100)
\*        if (features.get('f_savings_change_pct') or 0) < 0
\*   143  float(features.get('f_gambling_to_income', 0) or 0)
ErrorBeforeSelection(features) ==
    LET pct == PyOr(Get(features, "f_savings_change_pct", PyNone), Num(0))
        balance == Get(features, "f_savings_account_balance", Num(0))
    IN  FirstError(
          <<PyFloat(PyOr(Get(features, "f_monthly_salary", PyNone), Num(50000))),
            PyFloat(PyOr(Get(features, "f_monthly_emi", PyNone), Num(0))),
            IF pct.tag # "num" THEN "TypeError"           \* str < int
            ELSE IF pct.n < 0 /\ balance.tag # "num"
              THEN "TypeError"                             \* None * float, str * float
            ELSE "",
            PyFloat(PyOr(Get(features, "f_gambling_to_income", Num(0)), Num(0)))>>)

\* line 356: float(features.get('f_loan_amount', 500000))
ErrorAtImpact(features) == PyFloat(Get(features, "f_loan_amount", Num(500000)))

\* generate_intervention on a map of such values; t_auto_debit_fail_count is
\* absent from these maps (line 130 reads its default)
generate_intervention_of(customer_id, features, ml_result, context, unified_score) ==
    Only({ IF before # "" THEN Raise(before)
           ELSE Only({ IF r.kind = "raise" THEN r
                       ELSE IF ErrorAtImpact(features) # ""
                         THEN Raise(ErrorAtImpact(features))
                       ELSE r :
                       r \in {generate_intervention(customer_id, SafeNumbers(features),
                                                    ml_result, context, unified_score)} }) :
           before \in {ErrorBeforeSelection(features)} })

\* at most MaxBad fields of a map are missing, null or non-numeric
MaxBad == 2

\* the map with every key of base a number, but for the keys of kinds:
\* "missing" leaves the key out, "null" is None, "text" a non-numeric string
Spoiled(base, kinds) ==
    [k \in {k \in DOMAIN base : k \notin DOMAIN kinds \/ kinds[k] # "missing"} |->
        IF k \notin DOMAIN kinds THEN Num(base[k])
        ELSE IF kinds[k] = "null" THEN PyNone
        ELSE NonNumeric]

SpoiledMaps(base) ==
    UNION { {Spoiled(base, kinds) : kinds \in [bad -> {"missing", "null", "text"}]} :
            bad \in {b \in SUBSET DOMAIN base : Cardinality(b) <= MaxBad} }

\* gambling ratio in thousandths
DefaultsFeatures ==
    UNION { SpoiledMaps([f_monthly_salary |-> 60000,
                         f_monthly_emi |-> 35000,
                         f_savings_change_pct |-> pct,
                         f_savings_account_balance |-> 20000,
                         f_loan_amount |-> 300000,
                         f_gambling_to_income |-> 60]) : pct \in {-30, 10} }

DefaultsRows ==
    SpoiledMaps([current_salary_delay_days |-> 10,
                 credit_utilization |-> 90,
                 savings_change_pct |-> -30])

DefaultsEngines ==
    {[initialized |-> TRUE, xgb |-> <<45>>, lgbm |-> <<45>>, lstm |-> <<100>>],
     [initialized |-> FALSE, rng |-> RngBoot, draw |-> [st \in RngStates |-> -2]]}

DefaultsContexts ==
    {[case_type |-> CT_Normal, ability_score |-> 55, willingness_score |-> 75],
     [case_type |-> CT_Victim, ability_score |-> 35, willingness_score |-> 75]}

DefaultsScores == {45, 75}

InitDefaults ==
    /\ store = EmptyDict
    /\ engine \in DefaultsEngines
    /\ req \in {[op |-> "", customer_id |-> "CUSR-100000", features |-> f,
                 row |-> EmptyDict] : f \in DefaultsFeatures}
           \cup {[op |-> "", customer_id |-> "CUSR-100000", features |-> EmptyDict,
                  row |-> r] : r \in DefaultsRows}
    /\ response = NoResponse
    /\ auditLog = << >>
    /\ now = 0
    /\ calls = 0
    /\ lastWrite = NoWrite

RiskScoreOf ==
    /\ calls < MaxCalls
    /\ response' = Return(calculate_risk_score(req.customer_id, SafeRow(req.row)))
    /\ req' = [req EXCEPT !.op = "calculate_risk_score"]
    /\ calls' = calls + 1
    /\ UNCHANGED <<store, engine, auditLog, now, lastWrite>>

EnsembleOf ==
    /\ calls < MaxCalls
    /\ response' = Return(predict_ensemble(engine, SafeNumbers(req.features),
                                           req.customer_id))
    /\ req' = [req EXCEPT !.op = "predict_ensemble"]
    /\ engine' = EngineAfterPredict(engine)
    /\ calls' = calls + 1
    /\ UNCHANGED <<store, auditLog, now, lastWrite>>

ContextOf(time_jitter) ==
    /\ calls < MaxCalls
    /\ response' = Return(resolve_context(SafeNumbers(req.features), EmptyDict,
                                          req.customer_id, time_jitter))
    /\ req' = [req EXCEPT !.op = "resolve_context"]
    /\ calls' = calls + 1
    /\ UNCHANGED <<store, engine, auditLog, now, lastWrite>>

\* the result and the audit-trail write of one call
InterventionOutcome(log, timestamp, customer_id, features, ml_result, context, write_ok) ==
    Only({ IF r.kind = "raise"
             THEN [response |-> r, log |-> log, write |-> NoWrite]
           ELSE Only({ [response |-> IF w.raised THEN Raise("IOError") ELSE r,
                        log |-> w.log,
                        write |-> [attempts |-> w.attempts, failed |-> ~write_ok]] :
                       w \in {_log_audit_trail(log, timestamp, customer_id, r.value,
                                               write_ok)} }) :
           r \in {generate_intervention_of(customer_id, features, ml_result, context,
                                           << >>)} })

InterventionOf(context, score, write_ok) ==
    /\ calls < MaxCalls
    /\ \E a \in {InterventionOutcome(auditLog, now, req.customer_id, req.features,
                                     MlResult(score, Agents(60, 60, 60), << >>),
                                     context, write_ok)} :
           /\ response' = a.response
           /\ auditLog' = a.log
           /\ lastWrite' = a.write
    /\ req' = [req EXCEPT !.op = "generate_intervention"]
    /\ now' = now + 1
    /\ calls' = calls + 1
    /\ UNCHANGED <<store, engine>>

NextDefaults ==
    \/ RiskScoreOf
    \/ EnsembleOf
    \/ \E time_jitter \in TimeJitters : ContextOf(time_jitter)
    \/ \E context \in DefaultsContexts, score \in DefaultsScores, write_ok \in BOOLEAN :
          InterventionOf(context, score, write_ok)

SpecDefaults == InitDefaults /\ [][NextDefaults]_vars

\* C21 (as claimed): on every feature map in which a numeric field is missing,
\* null or non-numeric, calculate_risk_score, predict_ensemble, resolve_context
\* and generate_intervention each return a result and never raise to the
\* caller.
C21_NeverRaises ==
    req.op \in {"calculate_risk_score", "predict_ensemble", "resolve_context",
                "generate_intervention"}
        => response.kind = "return"

====
